---- MODULE Spec2Model ----
(***************************************************************************)
(* State-machine model of the tile collision engine                        *)
(* (CollisionHandler), of the display's bucket bookkeeping and of the      *)
(* FeatureModifier of the xyz-editor display package.                      *)
(*                                                                         *)
(* Conventions                                                             *)
(*  - a JS string is a sequence of one-character strings ("03" is          *)
(*    <<"0","3">>), so slicing, splitting and searching are computed;      *)
(*  - null / undefined is the empty sequence <<>>, a present value v is    *)
(*    the one-element sequence <<v>>;                                      *)
(*  - a JS Map / object with insertion-ordered keys is a function with a   *)
(*    changing DOMAIN (Map) or a sequence of [key, data] slots (object);   *)
(*  - lengths are kept in units of 1/Px pixel so that the fractional       *)
(*    factors of updateBBoxes stay exact.                                  *)
(***************************************************************************)
EXTENDS Integers, Sequences, FiniteSets, TLC

VARIABLES
    tiles,                  \* CollisionHandler.tiles : Map<tileCacheKey, CollisionDataMap>
    curLayerTileCollision,  \* CollisionHandler.curLayerTileCollision (<<>> = null)
    updated,                \* CollisionHandler.updated
    timer,                  \* CollisionHandler.timer (<<>> = null, <<id>> = timeout handle)
    timeouts,               \* the runtime's pending setTimeout entries, id -> [left, callback]
    display,                \* what CollisionHandler reads of its display: tiles, s, rz
    calls,                  \* ages of the oldest and the newest update() call not yet followed by a pass
    layers,                 \* BasicDisplay.layers, in z-order
    buckets,                \* BasicDisplay.buckets : quadkey -> BasicTile
    updating,               \* BasicDisplay.updating
    frame,                  \* the animation-frame callbacks of Display.update: requested, running, owed
    dirty,                  \* BasicDisplay.dirty
    dLayerTiles,            \* the screen tiles (quadkeys) of each display layer: layer id -> dLayer.tiles
    displayTiles,           \* BasicDisplay.tiles : grid tile size -> the quadkeys of its screen tiles
    listening,              \* the ids of the layers that carry the display's event listeners
    errors,                 \* the ids of the layers whose error flag is set
    fetches,                \* the layers' tile caches: <<layer id, quadkey>> -> "loading" | "loaded"
    editor,                 \* the Editor on the map: its listeners, features, selection and drawing board
    center,                 \* the map's centre, in pixels from where it started
    decode,                 \* the MVT decode task: its data, and what prep.ready received (<<>> = no task)
    ret                     \* the last call and what it returned

collisionVars == <<tiles, curLayerTileCollision, updated, timer, timeouts, display, calls>>

bucketVars == <<layers, buckets, updating, dirty, frame>>

gridVars == <<dLayerTiles, displayTiles, listening, errors, fetches>>

displayVars == <<bucketVars, gridVars>>

editorVars == <<editor, center>>

taskVars == <<decode>>

vars == <<collisionVars, displayVars, editorVars, taskVars, ret>>

NULL == <<>>

-----------------------------------------------------------------------------
(* Numbers and strings                                                     *)

Px == 8

UPDATE_DELAY_MS == 150

boxBuffer == 4 * Px

Digits == <<"0", "1", "2", "3", "4", "5", "6", "7", "8", "9">>

RECURSIVE NumToStr(_)
\* `${n}` for a non-negative integer
NumToStr(n) ==
    IF n < 10 THEN <<Digits[n + 1]>>
    ELSE NumToStr(n \div 10) \o <<Digits[(n % 10) + 1]>>

DigitVal(ch) == CHOOSE d \in 0..9 : Digits[d + 1] = ch

IsDigit(ch) == \E d \in 0..9 : Digits[d + 1] = ch

RECURSIVE StrToNum(_)
\* Number(str) for a string of decimal digits; -1 stands for NaN
StrToNum(s) ==
    IF s = <<>> THEN 0
    ELSE IF \E i \in 1..Len(s) : ~IsDigit(s[i]) THEN -1
    ELSE IF Len(s) = 1 THEN DigitVal(s[1])
    ELSE 10 * StrToNum(SubSeq(s, 1, Len(s) - 1)) + DigitVal(s[Len(s)])

\* key.split('-')[0]
SplitFirst(s) ==
    IF \E i \in 1..Len(s) : s[i] = "-"
    THEN SubSeq(s, 1, (CHOOSE i \in 1..Len(s) : s[i] = "-" /\ \A j \in 1..(i - 1) : s[j] # "-") - 1)
    ELSE s

Min(a, b) == IF a < b THEN a ELSE b
Max(a, b) == IF a > b THEN a ELSE b

RECURSIVE Pow2(_)
Pow2(n) == IF n = 0 THEN 1 ELSE 2 * Pow2(n - 1)

RECURSIVE Flatten(_)
Flatten(ss) == IF ss = <<>> THEN <<>> ELSE Head(ss) \o Flatten(Tail(ss))

-----------------------------------------------------------------------------
(* Tile addressing                                                         *)

RECURSIVE TileXYToQuadKey(_, _, _)
\* tileUtils.tileXYToQuadKey(z, y, x): one digit per level, most significant first
TileXYToQuadKey(z, y, x) ==
    IF z = 0 THEN <<>>
    ELSE LET mask == Pow2(z - 1)
             digit == ((x \div mask) % 2) + 2 * ((y \div mask) % 2)
         IN  <<Digits[digit + 1]>> \o TileXYToQuadKey(z - 1, y % mask, x % mask)

MkTile(z, y, x) == [quadkey |-> TileXYToQuadKey(z, y, x), x |-> x, y |-> y, z |-> z]

GetTileCacheKey_NoFold(quadkey, layer) == quadkey

GetTileCacheKey(quadkey, layer) ==
    IF layer.tileSize = 256 THEN SubSeq(quadkey, 1, Len(quadkey) - 1) ELSE quadkey

GetDataKey(quadkey, layer) == NumToStr(layer.id) \o <<"-">> \o quadkey

-----------------------------------------------------------------------------
(* Boxes                                                                   *)

BoxIntersects_Strict(bbox1, bbox2) ==
    /\ bbox1.minX < bbox2.maxX
    /\ bbox2.minX < bbox1.maxX
    /\ bbox1.minY < bbox2.maxY
    /\ bbox2.minY < bbox1.maxY

\* the test of one pair of boxes in CollisionHandler.intersects
BoxIntersects(bbox1, bbox2) ==
    /\ bbox1.minX <= bbox2.maxX
    /\ bbox2.minX <= bbox1.maxX
    /\ bbox1.minY <= bbox2.maxY
    /\ bbox2.minY <= bbox1.maxY

\* CollisionHandler.intersects(box1, data)
Intersects(box1, data) ==
    \E d \in 1..Len(data) :
        \E i2 \in 1..Len(data[d].boxes) :
            \E i1 \in 1..Len(box1.boxes) :
                BoxIntersects(box1.boxes[i1], data[d].boxes[i2])

UpdateBBoxes_SwapAxes(cx, cy, slope, w, h, boxes) ==
    [k \in 1..(boxes + 1) |->
        LET i == k - 1
            x == cx + (slope[2] * (6 * i - 3 * boxes)) \div (8 * boxes)
            y == cy + (slope[1] * (6 * i - 3 * boxes)) \div (8 * boxes)
        IN  [minX |-> x - w, maxX |-> x + w, minY |-> y - h, maxY |-> y + h]]

\* CollisionHandler.updateBBoxes: boxes + 1 squares along the slope;
\* relPos = (i / boxes - 0.5) * .75 = (6 i - 3 boxes) / (8 boxes)
UpdateBBoxes(cx, cy, slope, w, h, boxes) ==
    [k \in 1..(boxes + 1) |->
        LET i == k - 1
            x == cx + (slope[1] * (6 * i - 3 * boxes)) \div (8 * boxes)
            y == cy + (slope[2] * (6 * i - 3 * boxes)) \div (8 * boxes)
        IN  [minX |-> x - w, maxX |-> x + w, minY |-> y - h, maxY |-> y + h]]

-----------------------------------------------------------------------------
(* CollisionHandler: the tile cache                                         *)

\* this.tiles.get(key): <<>> when the Map has no such key, else <<slots>>
TilesGet(T, key) == IF key \in DOMAIN T THEN <<T[key]>> ELSE NULL

\* this.tiles.get(key) || {}
TilesGetOrEmpty(T, key) == IF key \in DOMAIN T THEN T[key] ELSE <<>>

\* this.tiles.set(key, slots)
TilesSet_Fresh(T, key, slots) == (key :> slots)

TilesSet(T, key, slots) == (key :> slots) @@ T

\* this.tiles.delete(key)
TilesDelete(T, key) == [k \in (DOMAIN T) \ {key} |-> T[k]]

HasSlot(slots, dataKey) == \E i \in 1..Len(slots) : slots[i].key = dataKey

SlotIndex(slots, dataKey) == CHOOSE i \in 1..Len(slots) : slots[i].key = dataKey

\* tileCollisionData[dataKey] = data: an existing key keeps its place, a new one is added last
SetSlot(slots, dataKey, data) ==
    IF HasSlot(slots, dataKey)
    THEN [slots EXCEPT ![SlotIndex(slots, dataKey)].data = data]
    ELSE Append(slots, [key |-> dataKey, data |-> data])

\* delete collisionTile[dataKey]
DeleteSlot(slots, dataKey) == SelectSeq(slots, LAMBDA sl : sl.key # dataKey)

\* the boxes of a list of collision data, all that intersects() reads of an obstacle
BoxesOnly(data) == [i \in 1..Len(data) |-> [boxes |-> data[i].boxes]]

ClearTileOp_NoGuard(T, cur, quadkey, layer) ==
    LET collisionTileKey == GetTileCacheKey(quadkey, layer)
        dataKey == GetDataKey(quadkey, layer)
    IN  IF collisionTileKey \in DOMAIN T
        THEN LET rest == DeleteSlot(T[collisionTileKey], dataKey)
             IN  IF rest # <<>> THEN [T EXCEPT ![collisionTileKey] = rest]
                 ELSE TilesDelete(T, collisionTileKey)
        ELSE T

\* CollisionHandler.clearTile: the cache after the call
ClearTileOp(T, cur, quadkey, layer) ==
    LET collisionTileKey == GetTileCacheKey(quadkey, layer)
        dataKey == GetDataKey(quadkey, layer)
    IN  IF cur # NULL /\ cur[1].dataKey = dataKey
        THEN T
        ELSE IF collisionTileKey \in DOMAIN T
             THEN LET rest == DeleteSlot(T[collisionTileKey], dataKey)
                  IN  IF rest # <<>> THEN [T EXCEPT ![collisionTileKey] = rest]
                      ELSE TilesDelete(T, collisionTileKey)
             ELSE T

\* the (ty, tx) pairs of the neighbour scan of initTile, in scan order
NeighbourOffsets ==
    <<<<-1, -1>>, <<-1, 0>>, <<-1, 1>>, <<0, -1>>, <<0, 1>>, <<1, -1>>, <<1, 0>>, <<1, 1>>>>

\* the neighbours list initTile collects from the 8 adjacent cache tiles
Neighbours(T, tile, layer) ==
    LET is256 == layer.tileSize = 256
        z == IF is256 THEN tile.z - 1 ELSE tile.z
        y == IF is256 THEN tile.y \div 2 ELSE tile.y
        x == IF is256 THEN tile.x \div 2 ELSE tile.x
        OfTile(n) ==
            LET qk == TileXYToQuadKey(z, y + NeighbourOffsets[n][1], x + NeighbourOffsets[n][2])
                collisionData == TilesGetOrEmpty(T, qk)
            IN  Flatten([i \in 1..Len(collisionData) |-> BoxesOnly(collisionData[i].data)])
    IN  Flatten([n \in 1..Len(NeighbourOffsets) |-> OfTile(n)])

Existing_NeighboursOnly(T, tile, layer) ==
    <<[key |-> <<"n", "e", "i", "g", "h", "b", "o", "u", "r", "s">>,
       data |-> Neighbours(T, tile, layer)]>>

\* the existing object of initTile: {neighbours, ...this.tiles.get(tileKey) || {}}
Existing(T, tile, layer) ==
    LET own == TilesGetOrEmpty(T, GetTileCacheKey(tile.quadkey, layer))
    IN  <<[key |-> <<"n", "e", "i", "g", "h", "b", "o", "u", "r", "s">>,
           data |-> Neighbours(T, tile, layer)]>>
        \o [i \in 1..Len(own) |-> [key |-> own[i].key, data |-> BoxesOnly(own[i].data)]]

ParentOffset_Doubled(p, t, tileSize) == 2 * p + (t % 2) * tileSize * Px

\* cx += tileX % 2 * tileSize (lines 225-226): a position p of the 256 tile
\* with coordinate t, moved into its quadrant of the parent 512 tile
ParentOffset(p, t, tileSize) == p + (t % 2) * tileSize * Px

AspectRatio_Rounded(max, min) == (2 * max + min) \div (2 * min)

\* Math.floor(max / min) (line 244)
AspectRatio(max, min) == max \div min

\* the collision data insert() builds from its arguments (lines 219-270)
MkCollisionData(c, tile, tileSize0) ==
    LET is256 == tileSize0 = 256
        cx == IF is256 THEN ParentOffset(c.cx, tile.x, tileSize0) ELSE c.cx
        cy == IF is256 THEN ParentOffset(c.cy, tile.y, tileSize0) ELSE c.cy
        tileSize == IF is256 THEN tileSize0 * 2 ELSE tileSize0
        tileX == (IF is256 THEN tile.x \div 2 ELSE tile.x) * tileSize * Px + c.offsetX
        tileY == (IF is256 THEN tile.y \div 2 ELSE tile.y) * tileSize * Px + c.offsetY
        halfWidth == c.halfWidth + boxBuffer
        halfHeight == c.halfHeight + boxBuffer
        min == Min(halfWidth, halfHeight)
        max == Max(halfWidth, halfHeight)
        aspectRatio == AspectRatio(max, min)
        chain == c.slope # <<>> /\ aspectRatio >= 2
        boxes == IF chain
                 THEN UpdateBBoxes(cx + tileX, cy + tileY, c.slope, min, min, (aspectRatio * 7) \div 10)
                 ELSE <<[minX |-> tileX + cx - halfWidth, maxX |-> tileX + cx + halfWidth,
                         minY |-> tileY + cy - halfHeight, maxY |-> tileY + cy + halfHeight]>>
    IN  [cx |-> cx, cy |-> cy, cz |-> c.cz,
         halfWidth |-> IF chain THEN min ELSE halfWidth,
         halfHeight |-> IF chain THEN min ELSE halfHeight,
         offsetX |-> c.offsetX, offsetY |-> c.offsetY,
         boxes |-> boxes, slope |-> c.slope, priority |-> c.priority, attrs |-> <<>>]

InsertCollides_BatchOnly(collisionData, cur) == Intersects(collisionData, cur.data)

\* the two rejection tests of insert (lines 275-284)
InsertCollides(collisionData, cur) ==
    \/ Intersects(collisionData, cur.data)
    \/ \E n \in 1..Len(cur.existing) : Intersects(collisionData, cur.existing[n].data)

InsertResult_FlagFirst(cur, upd, collisionData, attrs) ==
    IF InsertCollides(collisionData, cur)
    THEN [cur |-> cur, updated |-> TRUE, val |-> FALSE]
    ELSE [cur |-> [cur EXCEPT !.data = Append(@, [collisionData EXCEPT !.attrs = attrs])],
          updated |-> TRUE, val |-> TRUE]

\* insert() from the rejection tests on (lines 272-291): the batch, the updated
\* flag and whether the candidate was accepted. attrs are the buffer ranges
\* the caller registers on the returned collision data.
InsertResult(cur, upd, collisionData, attrs) ==
    IF InsertCollides(collisionData, cur)
    THEN [cur |-> cur, updated |-> upd, val |-> FALSE]
    ELSE [cur |-> [cur EXCEPT !.data = Append(@, [collisionData EXCEPT !.attrs = attrs])],
          updated |-> TRUE, val |-> TRUE]

-----------------------------------------------------------------------------
(* CollisionHandler: phase 2, resolution in screen space                    *)

\* display.project(x, y, 0, 0, 0): the camera's rotation about the z axis,
\* for the quarter turns rz = 0 and rz = 90
Project(x, y, rz) == IF rz = 90 THEN <<-y, x>> ELSE <<x, y>>

\* one entry updateTileCollisionData pushes (lines 443-486); ref says where
\* the entry's attrs live in the cache: <<cache key, slot, index>>
ScreenCollisionData(cData, tileX, tileY, tileScale, displayScale, rz, ref) ==
    LET offsetX == cData.offsetX \div displayScale
        offsetY == cData.offsetY \div displayScale
        boxCnt == Len(cData.boxes)
        screenX == tileX + cData.cx * tileScale
        screenY == tileY + cData.cy * tileScale
    IN  IF boxCnt > 1
        THEN LET prj == Project(screenX + offsetX, screenY + offsetY, rz)
                 prjScreen2 == Project(screenX + offsetX + cData.slope[1],
                                       screenY + offsetY + cData.slope[2], rz)
                 slope == <<(prjScreen2[1] - prj[1]) \div displayScale,
                            (prjScreen2[2] - prj[2]) \div displayScale>>
             IN  [boxes |-> UpdateBBoxes(prj[1], prj[2], slope, cData.halfWidth,
                                         cData.halfHeight, boxCnt - 1),
                  ref |-> ref, slope |-> slope, priority |-> cData.priority]
        ELSE LET prj == Project(screenX, screenY, rz)
             IN  [boxes |-> <<[minX |-> prj[1] - cData.halfWidth + offsetX,
                               maxX |-> prj[1] + cData.halfWidth + offsetX,
                               minY |-> prj[2] - cData.halfHeight + offsetY,
                               maxY |-> prj[2] + cData.halfHeight + offsetY]>>,
                  ref |-> ref, slope |-> cData.slope, priority |-> cData.priority]

\* CollisionHandler.updateTileCollisionData for one screen tile
UpdateTileCollisionData(screentile, tileCollisionData, displayScale, rz) ==
    Flatten([si \in 1..Len(tileCollisionData) |->
        [ci \in 1..Len(tileCollisionData[si].data) |->
            ScreenCollisionData(tileCollisionData[si].data[ci], screentile.x, screentile.y,
                                screentile.scale, displayScale, rz,
                                <<screentile.quadkey, si, ci>>)]])

\* the first loop of updateTiles (lines 374-381)
CollectCollisionData(T, vpTiles, displayScale, rz) ==
    Flatten([t \in 1..Len(vpTiles) |->
        UpdateTileCollisionData(vpTiles[t], TilesGetOrEmpty(T, vpTiles[t].quadkey),
                                displayScale, rz)])

\* x placed behind every entry of the sorted list s that does not sort after it
InsertSorted(x, s) ==
    LET n == Cardinality({i \in 1..Len(s) : s[i].priority <= x.priority})
    IN  SubSeq(s, 1, n) \o <<x>> \o SubSeq(s, n + 1, Len(s))

RECURSIVE SortByPriority_Descending(_)
SortByPriority_Descending(s) ==
    IF s = <<>> THEN <<>>
    ELSE LET rest == SortByPriority_Descending(SubSeq(s, 1, Len(s) - 1))
             x == s[Len(s)]
             n == Cardinality({i \in 1..Len(rest) : rest[i].priority >= x.priority})
         IN  SubSeq(rest, 1, n) \o <<x>> \o SubSeq(rest, n + 1, Len(rest))

RECURSIVE SortByPriority(_)
\* collisionData.sort((a, b) => a.priority - b.priority), a stable sort
SortByPriority(s) ==
    IF s = <<>> THEN <<>>
    ELSE InsertSorted(s[Len(s)], SortByPriority(SubSeq(s, 1, Len(s) - 1)))

SweepIntersects_ViewportOnly(bbox, visibleItemsViewportAligned, visibleItemsMapAligned) ==
    Intersects(bbox, visibleItemsViewportAligned)

SweepIntersects_OwnClassOnly(bbox, visibleItemsViewportAligned, visibleItemsMapAligned) ==
    IF bbox.slope # <<>>
    THEN Intersects(bbox, visibleItemsMapAligned)
    ELSE Intersects(bbox, visibleItemsViewportAligned)

\* the intersects flag of one entry of the sweep (lines 393-399)
SweepIntersects(bbox, visibleItemsViewportAligned, visibleItemsMapAligned) ==
    IF bbox.slope # <<>>
    THEN Intersects(bbox, visibleItemsViewportAligned)
    ELSE \/ Intersects(bbox, visibleItemsViewportAligned)
         \/ Intersects(bbox, visibleItemsMapAligned)

\* data[start] ^= 1
ToggleLSB(v) == IF v % 2 = 1 THEN v - 1 ELSE v + 1

\* (data[start] & 1) == 1
AttrVisible(attr) == attr.buffer.data[attr.start + 1] % 2 = 1

NeedsToggle_Always(intersects, visible) == TRUE

\* the test that guards the toggle (line 411)
NeedsToggle(intersects, visible) == intersects = visible

ToggleAttr_NotDirty(attr, intersects) ==
    IF NeedsToggle(intersects, AttrVisible(attr))
    THEN [attr EXCEPT
            !.buffer.data = [j \in 1..Len(@) |->
                IF /\ j - 1 >= attr.start
                   /\ j - 1 < attr.stop
                   /\ (j - 1 - attr.start) % attr.buffer.size = 0
                THEN ToggleLSB(@[j]) ELSE @[j]]]
    ELSE attr

\* one attr after lines 405-420
ToggleAttr(attr, intersects) ==
    IF NeedsToggle(intersects, AttrVisible(attr))
    THEN [attr EXCEPT
            !.buffer.data = [j \in 1..Len(@) |->
                IF /\ j - 1 >= attr.start
                   /\ j - 1 < attr.stop
                   /\ (j - 1 - attr.start) % attr.buffer.size = 0
                THEN ToggleLSB(@[j]) ELSE @[j]],
            !.buffer.dirty = TRUE]
    ELSE attr

RECURSIVE Sweep(_, _, _, _, _, _)
\* the sweep of updateTiles over the sorted entries (lines 386-427): the cache
\* with the toggled buffers and the updated flag
Sweep(collisionData, i, T, visibleItemsViewportAligned, visibleItemsMapAligned, upd) ==
    IF i > Len(collisionData) THEN [tiles |-> T, updated |-> upd]
    ELSE LET bbox == collisionData[i]
             intersects == SweepIntersects(bbox, visibleItemsViewportAligned,
                                           visibleItemsMapAligned)
             isSlope == bbox.slope # <<>>
             attrs == T[bbox.ref[1]][bbox.ref[2]].data[bbox.ref[3]].attrs
             attrs2 == [a \in 1..Len(attrs) |-> ToggleAttr(attrs[a], intersects)]
             T2 == [T EXCEPT ![bbox.ref[1]][bbox.ref[2]].data[bbox.ref[3]].attrs = attrs2]
         IN  Sweep(collisionData, i + 1, T2,
                   IF ~intersects /\ ~isSlope
                   THEN Append(visibleItemsViewportAligned, bbox)
                   ELSE visibleItemsViewportAligned,
                   IF ~intersects /\ isSlope
                   THEN Append(visibleItemsMapAligned, bbox)
                   ELSE visibleItemsMapAligned,
                   upd \/ \E a \in 1..Len(attrs) :
                            NeedsToggle(intersects, AttrVisible(attrs[a])))

\* CollisionHandler.updateTiles(tiles, displayScale)
UpdateTiles(T, vpTiles, displayScale, rz) ==
    Sweep(SortByPriority(CollectCollisionData(T, vpTiles, displayScale, rz)),
          1, T, <<>>, <<>>, FALSE)

\* display.getScreenTile(quadkey, 512): <<>> when the grid has no such tile
GetScreenTile(d, quadkey) ==
    IF \E i \in 1..Len(d.tiles) : d.tiles[i].quadkey = quadkey
    THEN <<d.tiles[CHOOSE i \in 1..Len(d.tiles) :
                /\ d.tiles[i].quadkey = quadkey
                /\ \A j \in 1..(i - 1) : d.tiles[j].quadkey # quadkey]>>
    ELSE NULL

UpdateTileSync_Skipped(T, d, tile) == [tiles |-> T, updated |-> FALSE]

\* CollisionHandler.updateTileSync(tile)
UpdateTileSync(T, d, tile) ==
    IF tile = NULL THEN [tiles |-> T, updated |-> FALSE]
    ELSE UpdateTiles(T, tile, d.s, d.rz)

-----------------------------------------------------------------------------
(* CollisionHandler: the debounce timer                                     *)

\* setTimeout(callback, delay): the handle of the new entry
NewTimeoutId(q) == CHOOSE id \in 1..(Cardinality(DOMAIN q) + 1) : id \notin DOMAIN q

SetTimeout(q, callback, delay) ==
    (NewTimeoutId(q) :> [left |-> delay, callback |-> callback]) @@ q

UpdateResult_Debounce(tm, q, callback) ==
    LET q0 == IF tm = NULL THEN q ELSE [id \in (DOMAIN q) \ {tm[1]} |-> q[id]]
    IN  [timer |-> <<NewTimeoutId(q0)>>, timeouts |-> SetTimeout(q0, callback, UPDATE_DELAY_MS)]

UpdateResult_LongDelay(tm, q, callback) ==
    IF tm = NULL
    THEN [timer |-> <<NewTimeoutId(q)>>,
          timeouts |-> SetTimeout(q, callback, 2 * UPDATE_DELAY_MS)]
    ELSE [timer |-> tm, timeouts |-> q]

UpdateResult_NoGuard(tm, q, callback) ==
    [timer |-> <<NewTimeoutId(q)>>, timeouts |-> SetTimeout(q, callback, UPDATE_DELAY_MS)]

\* CollisionHandler.update(callback): the timer field and the runtime's
\* timeouts after the call (lines 352-364)
UpdateResult(tm, q, callback) ==
    IF tm = NULL
    THEN [timer |-> <<NewTimeoutId(q)>>, timeouts |-> SetTimeout(q, callback, UPDATE_DELAY_MS)]
    ELSE [timer |-> tm, timeouts |-> q]

-----------------------------------------------------------------------------
(* Inputs                                                                   *)

Layer512 == [id |-> 1, tileSize |-> 512]
Layer256 == [id |-> 2, tileSize |-> 256]

Tile03 == MkTile(2, 1, 1)
Tile12 == MkTile(2, 1, 2)
Tile031 == MkTile(3, 2, 3)

\* the buffer range a caller registers for an accepted candidate: two
\* vertex records, both visible
NewAttrs == <<[start |-> 0, stop |-> 2,
               buffer |-> [data |-> <<1, 1>>, size |-> 1, dirty |-> FALSE]]>>

\* the arguments of insert other than the tile, given in pixels
Cand(cx, cy, offsetX, halfWidth, halfHeight, priority, slope) ==
    [cx |-> cx * Px, cy |-> cy * Px, cz |-> 0, offsetX |-> offsetX * Px, offsetY |-> 0,
     halfWidth |-> halfWidth * Px, halfHeight |-> halfHeight * Px,
     priority |-> priority, slope |-> slope]

CandA == Cand(10, 10, 0, 5, 5, 1, <<>>)
CandB == Cand(12, 12, 0, 5, 5, 2, <<>>)
CandP == Cand(500, 10, 0, 5, 5, 3, <<>>)
CandQ == Cand(238, 10, 0, 5, 5, 4, <<>>)
CandQ2 == Cand(10, 10, 0, 5, 5, 6, <<>>)
CandR == Cand(2, 10, 0, 5, 5, 5, <<>>)
CandV == Cand(10, 10, 20, 5, 5, 3, <<1 * Px, 0>>)
CandW == Cand(10, 10, 40, 5, 5, 5, <<1 * Px, 0>>)

Job(tile, layer) == [tile |-> tile, layer |-> layer]

\* the (tile, layer) pairs registered and the candidates offered for each
Jobs == {Job(Tile03, Layer512), Job(Tile031, Layer256), Job(Tile12, Layer512)}

CandsOf(job) ==
    IF job = Job(Tile03, Layer512) THEN {CandA, CandB, CandP}
    ELSE IF job = Job(Tile031, Layer256) THEN {CandQ, CandQ2}
    ELSE {CandR}

JobsResolve == {Job(Tile03, Layer512)}

CandsResolve(job) == {CandA, CandV, CandW}

ViewportTile(quadkey, x, y, scale) == [quadkey |-> quadkey, x |-> x * Px, y |-> y * Px, scale |-> scale]

NoView == [tiles |-> <<>>, s |-> 1, rz |-> 0]

Views ==
    {[tiles |-> <<ViewportTile(Tile03.quadkey, 0, 0, 1), ViewportTile(Tile12.quadkey, 512, 0, 1)>>,
      s |-> 1, rz |-> 0],
     [tiles |-> <<ViewportTile(Tile03.quadkey, -200, 0, 2)>>, s |-> 2, rz |-> 0],
     [tiles |-> <<ViewportTile(Tile12.quadkey, 0, 512, 1), ViewportTile(Tile03.quadkey, 0, 0, 1)>>,
      s |-> 1, rz |-> 90]}

Layers == {Layer512, Layer256}

TickSteps == {50, 100}

\* no animation frame is requested or running, no call to update is owed a
\* composition
NoFrame == [pending |-> 0, running |-> FALSE, owed |-> FALSE]

\* the own properties of a live editor object
EditorProps == {"listeners", "features", "drawingBoard"}

NoBoard == [active |-> FALSE, points |-> <<>>, hover |-> FALSE]

\* new Editor(display, options)
NewEditor ==
    [alive |-> TRUE, props |-> EditorProps, features |-> <<>>, selected |-> 0, board |-> NoBoard]

-----------------------------------------------------------------------------
(* CollisionHandler: the operations                                         *)

Ret(op, val) == [op |-> op, val |-> val, threw |-> FALSE, boxes |-> <<>>]

Throws(op) == [op |-> op, val |-> FALSE, threw |-> TRUE, boxes |-> <<>>]

Init ==
    /\ tiles = <<>>
    /\ curLayerTileCollision = NULL
    /\ updated = FALSE
    /\ timer = NULL
    /\ timeouts = <<>>
    /\ display = NoView
    /\ calls = <<>>
    /\ layers = <<>>
    /\ buckets = <<>>
    /\ updating = FALSE
    /\ frame = NoFrame
    /\ dirty = FALSE
    /\ dLayerTiles = <<>>
    /\ displayTiles = (256 :> <<>>) @@ (512 :> <<>>)
    /\ listening = {}
    /\ errors = {}
    /\ fetches = <<>>
    /\ editor = NewEditor
    /\ center = <<0, 0>>
    /\ decode = NULL
    /\ ret = Ret("new", FALSE)

\* the slot of (quadkey, layer) holds candidates
PriorEntries(T, quadkey, layer) ==
    LET key == GetTileCacheKey(quadkey, layer)
    IN  /\ key \in DOMAIN T
        /\ \E i \in 1..Len(T[key]) :
              T[key][i].key = GetDataKey(quadkey, layer) /\ T[key][i].data # <<>>

\* the open batch holds accepted candidates
BatchHasEntries(cur) == IF cur = NULL THEN FALSE ELSE cur[1].data # <<>>

InitTile_KeepsEntries(job) ==
    LET quadkey == job.tile.quadkey
        T == ClearTileOp(tiles, curLayerTileCollision, quadkey, job.layer)
    IN  /\ tiles' = T
        /\ curLayerTileCollision' =
              <<[tileKey |-> GetTileCacheKey(quadkey, job.layer),
                 data |-> IF curLayerTileCollision = NULL THEN <<>>
                          ELSE curLayerTileCollision[1].data,
                 dataKey |-> GetDataKey(quadkey, job.layer),
                 existing |-> Existing(T, job.tile, job.layer)]>>
        /\ updated' = FALSE
        /\ ret' = [op |-> "initTile", val |-> FALSE, threw |-> FALSE, boxes |-> <<>>,
                   prior |-> PriorEntries(tiles, quadkey, job.layer),
                   replaced |-> BatchHasEntries(curLayerTileCollision)]
        /\ UNCHANGED <<timer, timeouts, display, calls, displayVars, editorVars, taskVars>>

\* CollisionHandler.initTile(tile, layer)
InitTile(job) ==
    LET quadkey == job.tile.quadkey
        T == ClearTileOp(tiles, curLayerTileCollision, quadkey, job.layer)
    IN  /\ tiles' = T
        /\ curLayerTileCollision' =
              <<[tileKey |-> GetTileCacheKey(quadkey, job.layer),
                 data |-> <<>>,
                 dataKey |-> GetDataKey(quadkey, job.layer),
                 existing |-> Existing(T, job.tile, job.layer)]>>
        /\ updated' = FALSE
        /\ ret' = [op |-> "initTile", val |-> FALSE, threw |-> FALSE, boxes |-> <<>>,
                   prior |-> PriorEntries(tiles, quadkey, job.layer),
                   replaced |-> BatchHasEntries(curLayerTileCollision)]
        /\ UNCHANGED <<timer, timeouts, display, calls, displayVars, editorVars, taskVars>>

\* CollisionHandler.insert(...) for the tile of the open batch; without an
\* open batch the destructuring of curLayerTileCollision throws
Insert(c, job) ==
    /\ IF curLayerTileCollision = NULL
       THEN /\ ret' = Throws("insert")
            /\ UNCHANGED <<curLayerTileCollision, updated>>
       ELSE /\ curLayerTileCollision[1].dataKey = GetDataKey(job.tile.quadkey, job.layer)
            /\ LET collisionData == MkCollisionData(c, job.tile, job.layer.tileSize)
                   r == InsertResult(curLayerTileCollision[1], updated, collisionData, NewAttrs)
               IN  /\ curLayerTileCollision' = <<r.cur>>
                   /\ updated' = r.updated
                   /\ ret' = [op |-> "insert", val |-> r.val, threw |-> FALSE,
                              boxes |-> collisionData.boxes, c |-> c, tile |-> job.tile,
                              tileSize |-> job.layer.tileSize]
    /\ UNCHANGED <<tiles, timer, timeouts, display, calls, displayVars, editorVars, taskVars>>

\* CollisionHandler.completeTile(updateScreenSpaceCollision)
CompleteTile(updateScreenSpaceCollision) ==
    /\ IF curLayerTileCollision = NULL
       THEN /\ ret' = Throws("completeTile")
            /\ UNCHANGED <<tiles, curLayerTileCollision>>
       ELSE LET cur == curLayerTileCollision[1]
                tileCollisionData == SetSlot(TilesGetOrEmpty(tiles, cur.tileKey),
                                             cur.dataKey, cur.data)
                T == TilesSet(tiles, cur.tileKey, tileCollisionData)
            IN  /\ tiles' = IF updated /\ updateScreenSpaceCollision
                            THEN UpdateTileSync(T, display, GetScreenTile(display, cur.tileKey)).tiles
                            ELSE T
                /\ curLayerTileCollision' = NULL
                /\ ret' = Ret("completeTile", updated)
    /\ UNCHANGED <<updated, timer, timeouts, display, calls, displayVars, editorVars, taskVars>>

\* CollisionHandler.clearTile(quadkey, layer)
ClearTile(job) ==
    /\ tiles' = ClearTileOp(tiles, curLayerTileCollision, job.tile.quadkey, job.layer)
    /\ ret' = Ret("clearTile", FALSE)
    /\ UNCHANGED <<curLayerTileCollision, updated, timer, timeouts, display, calls, displayVars, editorVars, taskVars>>

\* CollisionHandler.removeTiles(layer)
RemoveTiles_AllLayers(layer) ==
    /\ tiles' = [k \in DOMAIN tiles |-> <<>>]
    /\ ret' = [op |-> "removeTiles", val |-> FALSE, threw |-> FALSE, boxes |-> <<>>,
               layer |-> layer]
    /\ UNCHANGED <<curLayerTileCollision, updated, timer, timeouts, display, calls, displayVars, editorVars, taskVars>>

RemoveTiles(layer) ==
    /\ tiles' = [k \in DOMAIN tiles |->
                    SelectSeq(tiles[k], LAMBDA sl : StrToNum(SplitFirst(sl.key)) # layer.id)]
    /\ ret' = [op |-> "removeTiles", val |-> FALSE, threw |-> FALSE, boxes |-> <<>>,
               layer |-> layer]
    /\ UNCHANGED <<curLayerTileCollision, updated, timer, timeouts, display, calls, displayVars, editorVars, taskVars>>

\* the camera moves: Display.setView and the grid's new viewport tiles
SetView(v) ==
    /\ display' = v
    /\ ret' = Ret("setView", FALSE)
    /\ UNCHANGED <<tiles, curLayerTileCollision, updated, timer, timeouts, calls, displayVars, editorVars, taskVars>>

\* CollisionHandler.update(callback); callback says whether one is given
Update(callback) ==
    /\ LET r == UpdateResult(timer, timeouts, callback)
       IN  /\ timer' = r.timer
           /\ timeouts' = r.timeouts
    /\ calls' = IF calls = <<>> THEN <<0, 0>> ELSE <<calls[1], 0>>
    /\ ret' = Ret("update", FALSE)
    /\ UNCHANGED <<tiles, curLayerTileCollision, updated, display, displayVars, editorVars, taskVars>>

\* the closure update() hands to setTimeout (lines 354-362): the cache after
\* the pass, what the pass reported and whether the callback was invoked
TimeoutCallback(T, d, callback) ==
    LET r == UpdateTiles(T, d.tiles, d.s, d.rz)
    IN  [tiles |-> r.tiles, updated |-> r.updated, called |-> r.updated /\ callback]

\* the runtime runs a timeout that is due
RunPass(id) ==
    /\ id \in DOMAIN timeouts
    /\ timeouts[id].left = 0
    /\ LET r == TimeoutCallback(tiles, display, timeouts[id].callback)
       IN  /\ tiles' = r.tiles
           /\ ret' = [op |-> "pass", val |-> r.updated, threw |-> FALSE, boxes |-> <<>>,
                      called |-> r.called]
    /\ timer' = NULL
    /\ timeouts' = [i \in (DOMAIN timeouts) \ {id} |-> timeouts[i]]
    /\ calls' = <<>>
    /\ UNCHANGED <<curLayerTileCollision, updated, display, displayVars, editorVars, taskVars>>

\* d milliseconds pass; a timeout that is due runs before more time passes
Tick(d) ==
    /\ DOMAIN timeouts # {}
    /\ \A id \in DOMAIN timeouts : timeouts[id].left >= d
    /\ timeouts' = [id \in DOMAIN timeouts |-> [timeouts[id] EXCEPT !.left = @ - d]]
    /\ calls' = [i \in DOMAIN calls |-> calls[i] + d]
    /\ UNCHANGED <<tiles, curLayerTileCollision, updated, timer, display, ret, displayVars, editorVars, taskVars>>

Next ==
    \/ \E job \in Jobs : InitTile(job)
    \/ \E job \in Jobs : \E c \in CandsOf(job) : Insert(c, job)
    \/ \E b \in BOOLEAN : CompleteTile(b)
    \/ \E job \in Jobs : ClearTile(job)
    \/ \E layer \in Layers : RemoveTiles(layer)
    \/ \E v \in Views : SetView(v)

Spec == Init /\ [][Next]_vars

NextResolve ==
    \/ \E job \in JobsResolve : InitTile(job)
    \/ \E job \in JobsResolve : \E c \in CandsResolve(job) : Insert(c, job)
    \/ \E b \in BOOLEAN : CompleteTile(b)
    \/ \E v \in Views : SetView(v)
    \/ \E cb \in BOOLEAN : Update(cb)
    \/ \E id \in DOMAIN timeouts : RunPass(id)
    \/ \E d \in TickSteps : Tick(d)

SpecResolve == Init /\ [][NextResolve]_vars

\* a viewport-aligned candidate that sorts behind the slope-aligned CandV
CandX == Cand(10, 10, 0, 5, 5, 4, <<>>)

CandsSweep(job) == {CandA, CandV, CandX}

NextSweep ==
    \/ \E job \in JobsResolve : InitTile(job)
    \/ \E job \in JobsResolve : \E c \in CandsSweep(job) : Insert(c, job)
    \/ \E b \in BOOLEAN : CompleteTile(b)
    \/ \E v \in Views : SetView(v)
    \/ \E cb \in BOOLEAN : Update(cb)
    \/ \E id \in DOMAIN timeouts : RunPass(id)
    \/ \E d \in TickSteps : Tick(d)

SpecSweep == Init /\ [][NextSweep]_vars

\* a step in which the runtime runs a due timeout callback: from a state with
\* a due timeout, RunPass is the only step that resets timer (line 359)
TimeoutRuns ==
    /\ \E id \in DOMAIN timeouts : timeouts[id].left = 0
    /\ timer' = NULL

\* the timer queue of the event loop: time passes while no timeout is due, and
\* a due timeout callback is eventually run
SpecResolveFair ==
    /\ SpecResolve
    /\ WF_vars(\E d \in TickSteps : Tick(d))
    /\ WF_timer(TimeoutRuns)

-----------------------------------------------------------------------------
(* The display's buckets (BasicDisplay) and FeatureModifier.clear          *)

\* Array.prototype.indexOf on display.layers: 0-based, -1 when absent
IndexOf(L, layer) ==
    IF \E i \in 1..Len(L) : L[i] = layer
    THEN (CHOOSE i \in 1..Len(L) : L[i] = layer /\ \A j \in 1..(i - 1) : L[j] # layer) - 1
    ELSE -1

\* a BasicTile for the given layers: per layer slot no data and not ready,
\* no task (tasks are kept in the order they were added), never drawn
NewBasicTile(quadkey, L) ==
    [quadkey |-> quadkey,
     data |-> [i \in 1..Len(L) |-> NULL],
     r |-> [i \in 1..Len(L) |-> FALSE],
     tasks |-> <<>>,
     luTs |-> NULL]

\* BasicBucket.create(quadkey, layers): the cached bucket, or a new one
BucketsCreate(B, quadkey, L) ==
    IF quadkey \in DOMAIN B THEN B ELSE (quadkey :> NewBasicTile(quadkey, L)) @@ B

\* BasicTile.addLayer(index): a new, empty layer slot at index
TileAddLayer(dTile, index) ==
    [dTile EXCEPT
        !.data = SubSeq(@, 1, index) \o <<NULL>> \o SubSeq(@, index + 1, Len(@)),
        !.r = SubSeq(@, 1, index) \o <<FALSE>> \o SubSeq(@, index + 1, Len(@))]

\* BasicTile.clear(index): drops the data of the layer slot
TileClear(dTile, index) == [dTile EXCEPT !.data[index + 1] = NULL]

\* BasicTile.ready(index): is the layer slot ready
TileIsReady(dTile, index) ==
    IF index + 1 \in DOMAIN dTile.r THEN dTile.r[index + 1] ELSE FALSE

\* BasicTile.ready(index, isReady)
TileReady(dTile, index, isReady) == [dTile EXCEPT !.r[index + 1] = isReady]

\* BasicTile.busy(layer): is a task of the layer pending on the bucket
TileBusy(dTile, layer) == \E i \in 1..Len(dTile.tasks) : dTile.tasks[i].layer = layer.id

\* BasicTile.cancelTasks(layer)
TileCancelTasks(dTile, layer) ==
    [dTile EXCEPT !.tasks = SelectSeq(@, LAMBDA task : task.layer # layer.id)]

\* Display.prepareTile(tile, data, layer, dTile, onDone): starts the build task
PrepareTile(dTile, layer) ==
    [dTile EXCEPT !.tasks = Append(@, [layer |-> layer.id, interrupted |-> FALSE,
                                       outdated |-> FALSE])]

\* String.prototype.search with a pattern of digits: the index of the first
\* occurrence of pattern in str, -1 when there is none
Search(str, pattern) ==
    LET n == Len(pattern)
        found == {i \in 0..(Len(str) - n) : SubSeq(str, i + 1, i + n) = pattern}
    IN  IF found = {} THEN -1 ELSE CHOOSE i \in found : \A j \in found : i <= j

IsDependent_DescendantsOnly(qk, clearedQuadkeys) ==
    \E c \in 1..Len(clearedQuadkeys) : Search(qk, clearedQuadkeys[c]) = 0

\* isDependent(qk, clearedQuadkeys): the longer of the two keys is searched
\* for the shorter one; undefined (falsy) when the loop finds nothing
IsDependent(qk, clearedQuadkeys) ==
    \E c \in 1..Len(clearedQuadkeys) :
        LET swap == Len(qk) > Len(clearedQuadkeys[c])
            cQk == IF swap THEN qk ELSE clearedQuadkeys[c]
            sQk == IF swap THEN clearedQuadkeys[c] ELSE qk
        IN  Search(cQk, sQk) = 0

\* Display.update(dirty): dirty is or-ed in and, unless a frame is already
\* requested, an animation frame is requested
DisplayUpdate(u, d, dirtyArg) == [updating |-> TRUE, dirty |-> d \/ dirtyArg]

RequestFrame_Always(fr, u) == [fr EXCEPT !.pending = @ + 1, !.owed = TRUE]

\* Display.update, lines 547-553: requestAnimationFrame is called unless
\* updating is set; the call to update is owed a composition
RequestFrame(fr, u) == [fr EXCEPT !.pending = IF u THEN @ ELSE @ + 1, !.owed = TRUE]

\* the display tiles quadkeys of the buckets and of the cleared keys
Tile0 == MkTile(1, 0, 0)

Tile3 == MkTile(1, 1, 1)

BucketQuadkeys == {Tile0.quadkey, Tile03.quadkey, Tile031.quadkey, Tile12.quadkey}

\* the tiles whose data arrives, per layer
TileRequests ==
    ({Layer512} \X BucketQuadkeys) \cup ({Layer256} \X {Tile031.quadkey})

\* the tiles argument of a layer's clear event: absent, or an array of quadkeys
ClearedQuadkeys ==
    {NULL,
     <<<<>>>>,
     <<<<Tile03.quadkey>>>>,
     <<<<Tile3.quadkey, Tile12.quadkey>>>>}

\* BasicDisplay.addLayer(layer, index) with index = layers.length
AddLayer(layer) ==
    /\ IndexOf(layers, layer) = -1
    /\ layers' = Append(layers, layer)
    /\ dLayerTiles' = (layer.id :> <<>>) @@ dLayerTiles
    /\ listening' = listening \cup {layer.id}
    /\ errors' = errors \ {layer.id}
    /\ buckets' = [qk \in DOMAIN buckets |-> TileAddLayer(buckets[qk], Len(layers))]
    /\ ret' = Ret("addLayer", TRUE)
    /\ UNCHANGED <<updating, dirty, frame, displayTiles, fetches, collisionVars, editorVars, taskVars>>

\* a tile of a layer's provider, as the display reads it: quadkey and tile.data
ProviderTile(quadkey, data) == [quadkey |-> quadkey, data |-> data, error |-> FALSE]

\* a tile whose request failed: it carries the error and no data
FailedTile(quadkey) == [quadkey |-> quadkey, data |-> FALSE, error |-> TRUE]

HandleTileError_Ignored(E, tile, layer) == E

\* handleTile, lines 239-241: the layers' error flags after the call
HandleTileError(E, tile, layer) == IF tile.error THEN E \cup {layer.id} ELSE E

\* handleTile, lines 235-241: display.layers[index] is undefined for a layer
\* that is not in the display, and the assignment to its error property throws
HandleTileThrows(L, tile, layer) == tile.error /\ IndexOf(L, layer) = -1

\* tile.isLoaded() for the layer's tile at quadkey
IsLoaded(F, quadkey, layer) ==
    <<layer.id, quadkey>> \in DOMAIN F /\ F[<<layer.id, quadkey>>] = "loaded"

\* the tile of the layer at quadkey is loaded (the provider's cache)
SetLoaded(F, quadkey, layer) ==
    [k \in DOMAIN F \cup {<<layer.id, quadkey>>} |->
        IF k = <<layer.id, quadkey>> THEN "loaded" ELSE F[k]]

HandleTileResult_NoBusyCheck(B, L, tile, layer) ==
    LET B1 == BucketsCreate(B, tile.quadkey, L)
        displayTile == B1[tile.quadkey]
        index == IndexOf(L, layer)
    IN  IF ~TileIsReady(displayTile, index) /\ tile.data
        THEN [B1 EXCEPT ![tile.quadkey] =
                PrepareTile(TileReady(displayTile, index, FALSE), layer)]
        ELSE B1

\* BasicDisplay.handleTile(tile, layer) for a tile without load error: the
\* buckets after the call
HandleTileResult(B, L, tile, layer) ==
    LET B1 == BucketsCreate(B, tile.quadkey, L)
        displayTile == B1[tile.quadkey]
        index == IndexOf(L, layer)
    IN  IF ~TileIsReady(displayTile, index) /\ ~TileBusy(displayTile, layer) /\ tile.data
        THEN [B1 EXCEPT ![tile.quadkey] =
                PrepareTile(TileReady(displayTile, index, FALSE), layer)]
        ELSE B1

\* BasicDisplay.handleTile(tile, layer) for a loaded tile that carries data
\* and no error
HandleTile(quadkey, layer) ==
    /\ IndexOf(layers, layer) # -1
    /\ buckets' = HandleTileResult(buckets, layers, ProviderTile(quadkey, TRUE), layer)
    /\ fetches' = SetLoaded(fetches, quadkey, layer)
    /\ ret' = Ret("handleTile", FALSE)
    /\ UNCHANGED <<layers, updating, dirty, frame, dLayerTiles, displayTiles, listening, errors,
                   collisionVars, editorVars, taskVars>>

\* the first task of the layer on the bucket
FirstTask(dTile, layer) ==
    CHOOSE i \in 1..Len(dTile.tasks) :
        /\ dTile.tasks[i].layer = layer.id
        /\ \A j \in 1..(i - 1) : dTile.tasks[j].layer # layer.id

\* the task at position i is removed from the bucket
TileRemoveTask(dTile, i) ==
    [dTile EXCEPT !.tasks = SubSeq(@, 1, i - 1) \o SubSeq(@, i + 1, Len(@))]

TileProcessedResult_AlwaysReady(dTile, L, layer, loaded) ==
    TileReady(dTile, IndexOf(L, layer), TRUE)

\* tileProcessed(dTile, layer), the onDone of handleTile (lines 246-254): the
\* bucket after the call
TileProcessedResult(dTile, L, layer, loaded) ==
    IF loaded THEN TileReady(dTile, IndexOf(L, layer), TRUE) ELSE dTile

\* a build task of (bucket, layer) completes: the task is removed, the built
\* data is stored and tileProcessed(dTile, layer) runs
TileProcessed(quadkey, layer) ==
    /\ quadkey \in DOMAIN buckets
    /\ TileBusy(buckets[quadkey], layer)
    /\ ~buckets[quadkey].tasks[FirstTask(buckets[quadkey], layer)].outdated
    /\ LET dTile == buckets[quadkey]
           index == IndexOf(layers, layer)
           built == [TileRemoveTask(dTile, FirstTask(dTile, layer))
                        EXCEPT !.data[index + 1] = <<layer.id>>]
           u == DisplayUpdate(updating, dirty, FALSE)
       IN  /\ buckets' = [buckets EXCEPT ![quadkey] =
                            TileProcessedResult(built, layers, layer,
                                                IsLoaded(fetches, quadkey, layer))]
           /\ updating' = u.updating
           /\ frame' = RequestFrame(frame, updating)
           /\ dirty' = u.dirty
    /\ ret' = [op |-> "tileProcessed", val |-> FALSE, threw |-> FALSE, boxes |-> <<>>,
               quadkey |-> quadkey, layer |-> layer]
    /\ UNCHANGED <<layers, gridVars, collisionVars, editorVars, taskVars>>

\* FeatureModifier.clear(layer, clearedQuadkeys), run by the clear listener
\* the display installs on the layers added to it
Clear(layer, clearedQuadkeys) ==
    /\ IndexOf(layers, layer) # -1
    /\ LET keys == IF clearedQuadkeys = NULL THEN <<>> ELSE clearedQuadkeys[1]
           index == IndexOf(layers, layer)
           u == DisplayUpdate(updating, dirty, FALSE)
       IN  /\ buckets' =
                [qk \in DOMAIN buckets |->
                    IF Len(keys) = 0 \/ IsDependent(buckets[qk].quadkey, keys)
                    THEN [TileCancelTasks(TileReady(TileClear(buckets[qk], index), index, FALSE),
                                          layer)
                            EXCEPT !.luTs = NULL]
                    ELSE buckets[qk]]
           /\ updating' = u.updating
           /\ frame' = RequestFrame(frame, updating)
           /\ dirty' = u.dirty
    /\ ret' = [op |-> "clear", val |-> FALSE, threw |-> FALSE, boxes |-> <<>>,
               layer |-> layer, keys |-> clearedQuadkeys]
    /\ UNCHANGED <<layers, gridVars, collisionVars, editorVars, taskVars>>

\* the renderer's viewport(): the buckets drawn in the frame are stamped
ViewportRender(B) == [qk \in DOMAIN B |-> [B[qk] EXCEPT !.luTs = <<1>>]]

\* the animation frame requested by Display.update fires, and viewport()
\* returns without a call to update
Viewport ==
    /\ updating
    /\ frame.pending > 0
    /\ ~frame.running
    /\ buckets' = ViewportRender(buckets)
    /\ updating' = FALSE
    /\ frame' = [frame EXCEPT !.pending = @ - 1, !.owed = FALSE]
    /\ ret' = Ret("viewport", FALSE)
    /\ UNCHANGED <<layers, dirty, gridVars, collisionVars, editorVars, taskVars>>

NextDisplay ==
    \/ \E layer \in Layers : AddLayer(layer)
    \/ \E req \in TileRequests : HandleTile(req[2], req[1])
    \/ \E req \in TileRequests : TileProcessed(req[2], req[1])
    \/ \E layer \in Layers : \E keys \in ClearedQuadkeys : Clear(layer, keys)
    \/ Viewport

SpecDisplay == Init /\ [][NextDisplay]_vars

-----------------------------------------------------------------------------
(* BasicDisplay: the grid, the layers' screen tiles and tile fetches, and  *)
(* the FeatureModifier's tile updates.  Previews are not modelled; layers  *)
(* are tiled and visible at every zoom level.                              *)

\* a layer without an explicit tileSize: undefined is kept as 0, which like
\* undefined is falsy and equal to no grid tile size
LayerNoSize == [id |-> 3, tileSize |-> 0]

\* layer.tileSize || 256 (line 404)
LayerTileSize(layer) == IF layer.tileSize = 0 THEN 256 ELSE layer.tileSize

\* BasicDisplay.isVisible(tile, dLayer)
IsVisible(LT, quadkey, layer) ==
    /\ layer.id \in DOMAIN LT
    /\ \E i \in 1..Len(LT[layer.id]) : LT[layer.id][i] = quadkey

DLayerHandleTile_NoVisibilityCheck(B, L, LT, tile, layer) ==
    HandleTileResult(B, L, tile, layer)

\* dLayer.handleTile(tile), the tile handler addLayer creates for the layer
\* (lines 172-177): the buckets after the call
DLayerHandleTile(B, L, LT, tile, layer) ==
    IF IsVisible(LT, tile.quadkey, layer) THEN HandleTileResult(B, L, tile, layer) ELSE B

\* dLayer.handleTile(tile): the layers' error flags after the call
DLayerHandleTileError(E, LT, tile, layer) ==
    IF IsVisible(LT, tile.quadkey, layer) THEN HandleTileError(E, tile, layer) ELSE E

UpdateTileResult_AlwaysOutdated(B, L, LT, tile, layer) ==
    LET dTile == B[tile.quadkey]
    IN  IF TileBusy(dTile, layer)
        THEN [B EXCEPT ![tile.quadkey].tasks[FirstTask(dTile, layer)].outdated = TRUE]
        ELSE DLayerHandleTile(
                 [B EXCEPT ![tile.quadkey] = TileReady(dTile, IndexOf(L, layer), FALSE)],
                 L, LT, tile, layer)

UpdateTileResult_KeepsReady(B, L, LT, tile, layer) ==
    LET dTile == B[tile.quadkey]
    IN  IF TileBusy(dTile, layer)
        THEN LET pendingTask == FirstTask(dTile, layer)
             IN  IF dTile.tasks[pendingTask].interrupted
                 THEN [B EXCEPT ![tile.quadkey].tasks[pendingTask].outdated = TRUE]
                 ELSE B
        ELSE DLayerHandleTile(B, L, LT, tile, layer)

\* BasicDisplay.updateTile(tile, dTile, layer) for the cached bucket of the
\* tile: the buckets after the call
UpdateTileResult(B, L, LT, tile, layer) ==
    LET dTile == B[tile.quadkey]
    IN  IF TileBusy(dTile, layer)
        THEN LET pendingTask == FirstTask(dTile, layer)
             IN  IF dTile.tasks[pendingTask].interrupted
                 THEN [B EXCEPT ![tile.quadkey].tasks[pendingTask].outdated = TRUE]
                 ELSE B
        ELSE DLayerHandleTile(
                 [B EXCEPT ![tile.quadkey] = TileReady(dTile, IndexOf(L, layer), FALSE)],
                 L, LT, tile, layer)

\* FeatureModifier.addToTile(feature, tile, layer)
AddToTile(B, L, LT, tile, layer) ==
    IF tile.quadkey \in DOMAIN B THEN UpdateTileResult(B, L, LT, tile, layer) ELSE B

\* FeatureModifier.modifyInTile(feature, tile, prevCoordinates, layer)
ModifyInTile(B, L, LT, tile, layer) ==
    IF tile.quadkey \in DOMAIN B THEN UpdateTileResult(B, L, LT, tile, layer) ELSE B

\* FeatureModifier.removeFromTile(feature, tile, layer)
RemoveFromTile(B, L, LT, tile, layer) ==
    IF tile.quadkey \in DOMAIN B THEN UpdateTileResult(B, L, LT, tile, layer) ELSE B

\* Array.prototype.indexOf on an array of tiles: 0-based, -1 when absent
TileIndexOf(ts, tile) ==
    IF \E i \in 1..Len(ts) : ts[i] = tile
    THEN (CHOOSE i \in 1..Len(ts) : ts[i] = tile /\ \A j \in 1..(i - 1) : ts[j] # tile) - 1
    ELSE -1

\* Array.prototype.splice(i, 1) with a 0-based i
Splice1(ts, i) == SubSeq(ts, 1, i) \o SubSeq(ts, i + 2, Len(ts))

\* one call of a per-tile operation of the FeatureModifier
TileCall(op, tile) == [op |-> op, quadkey |-> tile.quadkey]

\* updateGeometry, first loop (lines 399-408) from position t: st holds the
\* buckets, what is left of prevTiles and the per-tile calls made so far
RECURSIVE UpdateGeometryCur(_, _, _, _, _, _)
UpdateGeometryCur(st, curTiles, t, L, LT, layer) ==
    IF t > Len(curTiles) THEN st
    ELSE LET iPrev == TileIndexOf(st.prevTiles, curTiles[t])
         IN  IF iPrev = -1
             THEN UpdateGeometryCur(
                      [st EXCEPT !.buckets = AddToTile(@, L, LT, curTiles[t], layer),
                                 !.calls = Append(@, TileCall("add", curTiles[t]))],
                      curTiles, t + 1, L, LT, layer)
             ELSE UpdateGeometryCur(
                      [st EXCEPT !.buckets = ModifyInTile(@, L, LT, curTiles[t], layer),
                                 !.calls = Append(@, TileCall("modify", curTiles[t])),
                                 !.prevTiles = Splice1(@, iPrev)],
                      curTiles, t + 1, L, LT, layer)

\* updateGeometry, second loop (lines 410-413) from position t
RECURSIVE UpdateGeometryPrev(_, _, _, _, _)
UpdateGeometryPrev(st, t, L, LT, layer) ==
    IF t > Len(st.prevTiles) THEN st
    ELSE LET tile == st.prevTiles[t]
             B1 == RemoveFromTile(st.buckets, L, LT, tile, layer)
             B2 == RemoveFromTile(B1, L, LT, tile, layer)
         IN  UpdateGeometryPrev(
                 [st EXCEPT !.buckets = B2,
                            !.calls = @ \o <<TileCall("remove", tile), TileCall("remove", tile)>>],
                 t + 1, L, LT, layer)

\* FeatureModifier.updateGeometry(feature, prevBBox, prevCoordinates, layer):
\* prevTiles and curTiles are the provider's cached tiles of the two boxes
UpdateGeometryResult(B, L, LT, prevTiles, curTiles, layer) ==
    UpdateGeometryPrev(
        UpdateGeometryCur([buckets |-> B, prevTiles |-> prevTiles, calls |-> <<>>],
                          curTiles, 1, L, LT, layer),
        1, L, LT, layer)

\* the state of a tile in a layer's cache: absent from fetches when it was
\* never requested or its request was cancelled, "loading" while the
\* request is in flight (loadStartTs set, not loaded), "loaded" or "failed"
\* afterwards
FetchKey(quadkey, layer) == <<layer.id, quadkey>>

\* the tile the provider hands to the callback of a finished request
FetchedTile(F, quadkey, layer) ==
    IF F[FetchKey(quadkey, layer)] = "failed" THEN FailedTile(quadkey)
    ELSE ProviderTile(quadkey, TRUE)

\* layer.getTile(quadkey, dLayer.handleTile) (line 410): a loaded tile is
\* handed to the callback at once, otherwise the request is (or stays) in flight
GetTile(st, L, quadkey, layer) ==
    LET key == FetchKey(quadkey, layer)
    IN  IF key \notin DOMAIN st.fetches
        THEN [st EXCEPT !.fetches = (key :> "loading") @@ @]
        ELSE IF st.fetches[key] # "loading"
             THEN LET tile == FetchedTile(st.fetches, quadkey, layer)
                  IN  [st EXCEPT
                          !.buckets = DLayerHandleTile(@, L, st.dLayerTiles, tile, layer),
                          !.errors = DLayerHandleTileError(@, st.dLayerTiles, tile, layer)]
             ELSE st

ReleaseTile_KeepsRequest(F, quadkey, layer) == F

\* BasicDisplay.releaseTile(quadkey, dLayer): the layers' caches afterwards
ReleaseTile(F, quadkey, layer) ==
    LET key == FetchKey(quadkey, layer)
    IN  IF key \in DOMAIN F /\ F[key] = "loading"
        THEN [k \in DOMAIN F \ {key} |-> F[k]]
        ELSE F

\* BasicTile.cancelTasks(undefined): every pending task of the bucket
TileCancelAllTasks(dTile) == [dTile EXCEPT !.tasks = <<>>]

Cancel_Nothing(B, quadkey, layer) == B

\* BasicDisplay.cancel(quadkey, layer); layer is NULL when not passed
Cancel(B, quadkey, layer) ==
    IF quadkey \in DOMAIN B
    THEN [B EXCEPT ![quadkey] = IF layer = NULL THEN TileCancelAllTasks(@)
                                ELSE TileCancelTasks(@, layer[1])]
    ELSE B

\* initVpTiles, the loop over the layers for one grid tile (lines 399-413)
RECURSIVE InitVpLayers(_, _, _, _, _, _)
InitVpLayers(st, L, quadkey, screenTiles, gridTileSize, i) ==
    IF i > Len(L) THEN st
    ELSE LET layer == L[i]
         IN  IF LayerTileSize(layer) = gridTileSize
             THEN InitVpLayers(
                      GetTile([st EXCEPT !.dLayerTiles[layer.id] = screenTiles],
                              L, quadkey, layer),
                      L, quadkey, screenTiles, gridTileSize, i + 1)
             ELSE InitVpLayers(st, L, quadkey, screenTiles, gridTileSize, i + 1)

\* initVpTiles, the loop over the grid tiles (lines 389-414) from position k
RECURSIVE InitVpGridTiles(_, _, _, _, _)
InitVpGridTiles(st, L, gridTiles, gridTileSize, k) ==
    IF k > Len(gridTiles) THEN st
    ELSE InitVpGridTiles(
             InitVpLayers([st EXCEPT !.buckets = BucketsCreate(@, gridTiles[k], L)],
                          L, gridTiles[k], SubSeq(gridTiles, 1, k), gridTileSize, 1),
             L, gridTiles, gridTileSize, k + 1)

\* initVpTiles, the tiles that left the grid (lines 417-431) from position k
RECURSIVE InitVpLeftTiles(_, _, _, _, _, _)
InitVpLeftTiles(st, L, prevVPTiles, vpTiles, gridTileSize, k) ==
    IF k > Len(prevVPTiles) THEN st
    ELSE LET qk == prevVPTiles[k]
             released == {i \in 1..Len(L) : L[i].tileSize = gridTileSize}
             F1 == [key \in DOMAIN st.fetches \
                        {key \in DOMAIN st.fetches :
                            /\ key[2] = qk
                            /\ \E i \in released : key[1] = L[i].id
                            /\ st.fetches[key] = "loading"} |-> st.fetches[key]]
         IN  IF \E j \in 1..Len(vpTiles) : vpTiles[j] = qk
             THEN InitVpLeftTiles(st, L, prevVPTiles, vpTiles, gridTileSize, k + 1)
             ELSE InitVpLeftTiles(
                      [st EXCEPT !.fetches = F1, !.buckets = Cancel(@, qk, NULL)],
                      L, prevVPTiles, vpTiles, gridTileSize, k + 1)

\* BasicDisplay.initVpTiles(gridTiles, zoomLevel, gridTileSize)
InitVpTiles(st, L, gridTiles, gridTileSize) ==
    LET prevVPTiles == st.displayTiles[gridTileSize]
        st1 == InitVpGridTiles([st EXCEPT !.displayTiles[gridTileSize] = gridTiles],
                               L, gridTiles, gridTileSize, 1)
    IN  InitVpLeftTiles(st1, L, prevVPTiles, gridTiles, gridTileSize, 1)

\* Layers.reset(zoom): the tile sizes the layers of the display are rendered at
RECURSIVE LayersReset(_, _)
LayersReset(L, i) ==
    IF i > Len(L) THEN <<>>
    ELSE LET rest == LayersReset(L, i + 1)
         IN  IF \E j \in 1..Len(rest) : rest[j] = LayerTileSize(L[i])
             THEN rest
             ELSE <<LayerTileSize(L[i])>> \o rest

\* updateGrid, the loop over the tile sizes (lines 500-503) from position k
RECURSIVE UpdateGridSizes(_, _, _, _, _)
UpdateGridSizes(st, L, tileSizes, grid, k) ==
    IF k > Len(tileSizes) THEN st
    ELSE UpdateGridSizes(InitVpTiles(st, L, grid[tileSizes[k]], tileSizes[k]),
                         L, tileSizes, grid, k + 1)

GridLayers == {Layer512, LayerNoSize}

Tile120 == MkTile(3, 2, 4)

\* the tile grids of the views the map is moved to: per tile size the
\* quadkeys Grid.getTiles returns
Grids == {
    [s \in {256, 512} |-> IF s = 512 THEN <<Tile03.quadkey, Tile12.quadkey>>
                          ELSE <<Tile031.quadkey>>],
    [s \in {256, 512} |-> IF s = 512 THEN <<Tile12.quadkey>>
                          ELSE <<Tile120.quadkey>>]}

\* BasicDisplay.updateGrid(tileGridZoom, zoomLevel, screenOffsetX, screenOffsetY)
UpdateGrid(grid) ==
    LET st == UpdateGridSizes(
                  [buckets |-> buckets, dLayerTiles |-> dLayerTiles,
                   displayTiles |-> displayTiles, fetches |-> fetches,
                   errors |-> errors],
                  layers, LayersReset(layers, 1), grid, 1)
        u == DisplayUpdate(updating, TRUE, FALSE)
    IN  /\ buckets' = st.buckets
        /\ dLayerTiles' = st.dLayerTiles
        /\ displayTiles' = st.displayTiles
        /\ fetches' = st.fetches
        /\ errors' = st.errors
        /\ dirty' = u.dirty
        /\ updating' = u.updating
        /\ frame' = RequestFrame(frame, updating)
        /\ ret' = [op |-> "updateGrid", val |-> FALSE, threw |-> FALSE, boxes |-> <<>>,
                   grid |-> grid]
        /\ UNCHANGED <<layers, listening, collisionVars, editorVars, taskVars>>

\* the provider finishes the request of a tile, with the tile's data or
\* with an error, and the callback of the request, dLayer.handleTile, runs
DataArrives(quadkey, layer, failed) ==
    LET key == FetchKey(quadkey, layer)
        F1 == [fetches EXCEPT ![key] = IF failed THEN "failed" ELSE "loaded"]
        tile == FetchedTile(F1, quadkey, layer)
    IN  /\ key \in DOMAIN fetches
        /\ fetches[key] = "loading"
        /\ fetches' = F1
        /\ buckets' = DLayerHandleTile(buckets, layers, dLayerTiles, tile, layer)
        /\ errors' = DLayerHandleTileError(errors, dLayerTiles, tile, layer)
        /\ ret' = [op |-> "dataArrives", val |-> FALSE,
                   threw |-> IsVisible(dLayerTiles, quadkey, layer)
                                 /\ HandleTileThrows(layers, tile, layer),
                   boxes |-> <<>>, quadkey |-> quadkey, layer |-> layer]
        /\ UNCHANGED <<layers, updating, dirty, frame, dLayerTiles, displayTiles, listening,
                       collisionVars, editorVars, taskVars>>

\* BasicTile.removeLayer(index): the layer's slot leaves the bucket
TileRemoveLayer(dTile, index) ==
    [dTile EXCEPT
        !.data = SubSeq(@, 1, index) \o SubSeq(@, index + 2, Len(@)),
        !.r = SubSeq(@, 1, index) \o SubSeq(@, index + 2, Len(@))]

RemoveLayerTiles_NoRelease(st, screenTiles, layer, k) == st

\* removeLayer, the loop over the layer's screen tiles (lines 199-203) from
\* position k
RECURSIVE RemoveLayerTiles(_, _, _, _)
RemoveLayerTiles(st, screenTiles, layer, k) ==
    IF k > Len(screenTiles) THEN st
    ELSE RemoveLayerTiles(
             [st EXCEPT !.fetches = ReleaseTile(@, screenTiles[k], layer),
                        !.buckets = Cancel(@, screenTiles[k], <<layer>>)],
             screenTiles, layer, k + 1)

\* Layers.remove(layer)
LayersRemove(L, layer) == SelectSeq(L, LAMBDA l : l # layer)

\* BasicDisplay.removeLayer(layer) for a layer of the display
RemoveLayer(layer) ==
    /\ IndexOf(layers, layer) # -1
    /\ LET screenTiles == dLayerTiles[layer.id]
           index == IndexOf(layers, layer)
           B1 == [qk \in DOMAIN buckets |->
                     TileRemoveLayer(TileCancelTasks(buckets[qk], layer), index)]
           st == RemoveLayerTiles([buckets |-> B1, fetches |-> fetches], screenTiles, layer, 1)
       IN  /\ buckets' = st.buckets
           /\ fetches' = st.fetches
           /\ layers' = LayersRemove(layers, layer)
           /\ listening' = listening \ {layer.id}
           /\ ret' = [op |-> "removeLayer", val |-> index, threw |-> FALSE, boxes |-> <<>>,
                      layer |-> layer]
    /\ UNCHANGED <<updating, dirty, frame, dLayerTiles, displayTiles, errors, collisionVars, editorVars, taskVars>>

\* the task scheduler suspends the build of the layer on the bucket at one
\* of its yield points
TaskInterrupted(quadkey, layer) ==
    /\ quadkey \in DOMAIN buckets
    /\ TileBusy(buckets[quadkey], layer)
    /\ ~buckets[quadkey].tasks[FirstTask(buckets[quadkey], layer)].interrupted
    /\ buckets' = [buckets EXCEPT
                       ![quadkey].tasks[FirstTask(buckets[quadkey], layer)].interrupted = TRUE]
    /\ ret' = Ret("taskInterrupted", FALSE)
    /\ UNCHANGED <<layers, updating, dirty, frame, gridVars, collisionVars, editorVars, taskVars>>

\* a build that was marked outdated finishes: its result is discarded
TaskDiscarded(quadkey, layer) ==
    /\ quadkey \in DOMAIN buckets
    /\ TileBusy(buckets[quadkey], layer)
    /\ buckets[quadkey].tasks[FirstTask(buckets[quadkey], layer)].outdated
    /\ buckets' = [buckets EXCEPT
                       ![quadkey] = TileRemoveTask(@, FirstTask(@, layer))]
    /\ ret' = [op |-> "taskDiscarded", val |-> FALSE, threw |-> FALSE, boxes |-> <<>>,
               quadkey |-> quadkey, layer |-> layer]
    /\ UNCHANGED <<layers, updating, dirty, frame, gridVars, collisionVars, editorVars, taskVars>>

Tile13 == MkTile(2, 1, 3)

\* the order getCachedTiles lists a provider's tiles in
CacheOrder == <<Tile03.quadkey, Tile12.quadkey, Tile13.quadkey>>

\* the tiles of the layer's provider cache, as getCachedTiles returns them
\* for the bounding box of a feature that lies across two neighbouring
\* tiles: each holds the feature, so has data
CachedTileLists(F, layer) ==
    LET cached == {i \in 1..Len(CacheOrder) : FetchKey(CacheOrder[i], layer) \in DOMAIN F}
        T(i) == ProviderTile(CacheOrder[i], TRUE)
    IN  {<<T(i), T(i + 1)>> : i \in {j \in cached : j + 1 \in cached}}

\* the display's featureCoordinatesChange listener: the FeatureModifier
\* updates the tiles of a feature whose geometry changed
UpdateGeometry(prevTiles, curTiles, layer) ==
    /\ IndexOf(layers, layer) # -1
    /\ layer.id \in listening
    /\ LET st == UpdateGeometryResult(buckets, layers, dLayerTiles, prevTiles, curTiles, layer)
       IN  /\ buckets' = st.buckets
           /\ ret' = [op |-> "updateGeometry", val |-> FALSE, threw |-> FALSE,
                      boxes |-> <<>>, prevTiles |-> prevTiles, curTiles |-> curTiles,
                      calls |-> st.calls]
    /\ UNCHANGED <<layers, updating, dirty, frame, gridVars, collisionVars, editorVars, taskVars>>

GridQuadkeys == {Tile03.quadkey, Tile12.quadkey, Tile031.quadkey, Tile120.quadkey}

NextGrid ==
    \/ \E layer \in GridLayers : AddLayer(layer)
    \/ \E layer \in GridLayers : RemoveLayer(layer)
    \/ \E grid \in Grids : UpdateGrid(grid)
    \/ \E quadkey \in GridQuadkeys, layer \in GridLayers, failed \in BOOLEAN :
           DataArrives(quadkey, layer, failed)
    \/ \E quadkey \in GridQuadkeys, layer \in GridLayers : TileProcessed(quadkey, layer)

SpecGrid == Init /\ [][NextGrid]_vars

\* the tile grids of the views of a map with an editable layer
ModifierGrids == {
    [s \in {256, 512} |-> IF s = 512 THEN <<Tile03.quadkey, Tile12.quadkey>>
                          ELSE <<Tile031.quadkey>>],
    [s \in {256, 512} |-> IF s = 512 THEN <<Tile12.quadkey, Tile13.quadkey>>
                          ELSE <<Tile120.quadkey>>]}

ModifierQuadkeys == {Tile03.quadkey, Tile12.quadkey, Tile13.quadkey}

NextModifier ==
    \/ AddLayer(Layer512)
    \/ \E grid \in ModifierGrids : UpdateGrid(grid)
    \/ \E quadkey \in ModifierQuadkeys : DataArrives(quadkey, Layer512, FALSE)
    \/ \E quadkey \in ModifierQuadkeys : TaskInterrupted(quadkey, Layer512)
    \/ \E quadkey \in ModifierQuadkeys : TileProcessed(quadkey, Layer512)
    \/ \E quadkey \in ModifierQuadkeys : TaskDiscarded(quadkey, Layer512)
    \/ \E prevTiles \in CachedTileLists(fetches, Layer512),
          curTiles \in CachedTileLists(fetches, Layer512) :
           UpdateGeometry(prevTiles, curTiles, Layer512)
    \/ Viewport

SpecModifier == Init /\ [][NextModifier]_vars

-----------------------------------------------------------------------------
(* insert() over candidates of different shapes and positions               *)

\* a 5px box at (10, 10), and boxes that touch it along an edge (InsT), at a
\* corner (InsK), and that stay one eighth of a pixel clear of it (InsN)
InsT == Cand(28, 10, 0, 5, 5, 2, <<>>)
InsK == Cand(28, 28, 0, 5, 5, 3, <<>>)
InsN == [Cand(28, 10, 0, 5, 5, 4, <<>>) EXCEPT !.cx = 28 * Px + 1]

\* elongated candidates around one anchor: with a slope and padded half-extents 34:9 (InsS),
\* 18:9 (InsE), 16:9 (InsR), 9:34 (InsU); without a slope 34:9 (InsF)
InsS == Cand(100, 100, 0, 30, 5, 5, <<1 * Px, 0>>)
InsE == Cand(100, 100, 0, 14, 5, 6, <<1 * Px, 0>>)
InsR == Cand(100, 100, 0, 12, 5, 7, <<1 * Px, 0>>)
InsU == Cand(100, 100, 0, 5, 30, 8, <<0, 1 * Px>>)
InsF == Cand(100, 100, 0, 30, 5, 9, <<>>)

\* one point of the map: (238, 10) of the 256 tile 031 and (494, 10) of its
\* parent 512 tile 03
InsQ512 == Cand(494, 10, 0, 5, 5, 10, <<>>)

JobsInsert == {Job(Tile03, Layer512), Job(Tile031, Layer256)}

CandsInsert(job) ==
    IF job = Job(Tile03, Layer512)
    THEN {CandA, InsT, InsK, InsN, InsS, InsE, InsR, InsU, InsF, InsQ512}
    ELSE {CandQ, CandQ2, InsS}

NextInsert ==
    \/ \E job \in JobsInsert : InitTile(job)
    \/ \E job \in JobsInsert : \E c \in CandsInsert(job) : Insert(c, job)

SpecInsert == Init /\ [][NextInsert]_vars

-----------------------------------------------------------------------------
(* initTile among registered, unregistered and distant tiles                *)

\* a tile two columns and two rows away from tile 03
Tile33 == MkTile(2, 3, 3)

JobsObstacles ==
    {Job(Tile03, Layer512), Job(Tile031, Layer256), Job(Tile12, Layer512), Job(Tile33, Layer512)}

CandsObstacles(job) ==
    IF job = Job(Tile03, Layer512) THEN {CandA, CandP}
    ELSE IF job = Job(Tile031, Layer256) THEN {CandQ}
    ELSE IF job = Job(Tile12, Layer512) THEN {CandR}
    ELSE {CandA}

NextObstacles ==
    \/ \E job \in JobsObstacles : InitTile(job)
    \/ \E job \in JobsObstacles : \E c \in CandsObstacles(job) : Insert(c, job)
    \/ CompleteTile(FALSE)

SpecObstacles == Init /\ [][NextObstacles]_vars

-----------------------------------------------------------------------------
(* addExtrude: the side walls of extruded polygons.  Coordinates are tile   *)
(* pixels in units of 1/Px, heights are in hundredths.                      *)

\* MIN_VISIBLE_HEIGHT = 0.01, in hundredths
MIN_VISIBLE_HEIGHT == 1

\* Math.round of a length in 1/Px pixel, in whole pixels
MathRound(v) == (v + Px \div 2) \div Px

\* the value of an arithmetic expression over undefined, which is falsy and
\* equal to no buffer index: kept as a number that is no buffer index
NaN == -1

\* a point of a ring, in pixel
Pt(x, y) == <<x * Px, y * Px>>

\* the FlatPolygon addPolygon returns for the rings of a polygon: the closed
\* rings one after the other in the vertex buffer, three numbers per vertex,
\* from start to stop, and the vertex index at which each hole begins
RECURSIVE HoleIndices(_, _)
HoleIndices(rings, offset) ==
    IF Len(rings) < 2 THEN <<>>
    ELSE <<offset + Len(rings[1])>> \o HoleIndices(Tail(rings), offset + Len(rings[1]))

FlatPolygonOf(rings) ==
    [vertices |-> Flatten(rings), holes |-> HoleIndices(rings, 0),
     start |-> 0, stop |-> 3 * Len(Flatten(rings))]

\* verts.get(i), verts.get(i + 1): the vertex at buffer index i
VertexAt(verts, i) == verts[i \div 3 + 1]

\* isInBox(x, y, xmin, ymin, xmax, ymax)
IsInBox(x, y, xmin, ymin, xmax, ymax) == x >= xmin /\ x <= xmax /\ y >= ymin /\ y <= ymax

\* signedArea(lineString, start, stop)
RECURSIVE SignedArea(_, _, _)
SignedArea(verts, i, stop) ==
    IF i < stop - 1
    THEN LET p1 == VertexAt(verts, i)
             p2 == VertexAt(verts, i + 3)
         IN  (p2[1] - p1[1]) * (p1[2] + p2[2]) + SignedArea(verts, i + 3, stop)
    ELSE 0

\* flatPolygon.start + holes[holeIndex] * 3 - 6 (lines 56, 134)
NextHole(flatPolygon, holeIndex) ==
    IF holeIndex < Len(flatPolygon.holes)
    THEN flatPolygon.start + flatPolygon.holes[holeIndex + 1] * 3 - 6
    ELSE NaN

\* signedArea(vertex.data, start, nextHole ? nextHole + 3 : stop) (lines 57, 136)
RingArea(flatPolygon, start, nextHole, stop) ==
    SignedArea(flatPolygon.vertices, start,
               IF nextHole # NaN /\ nextHole # 0 THEN nextHole + 3 ELSE stop)

\* addExterior, the condition of lines 84-87 for the edge from p1 to p2
EmitsWall(p1, p2, tileSize) ==
    LET dx == MathRound(p1[1]) - MathRound(p2[1])
        dy == MathRound(p1[2]) - MathRound(p2[2])
    IN  /\ dx # 0 \/ dy # 0
        /\ \/ IsInBox(p1[1], p1[2], 0, 0, tileSize * Px, tileSize * Px)
           \/ IsInBox(p2[1], p2[2], 0, 0, tileSize * Px, tileSize * Px)

\* addExterior, the loop of lines 61-140: the walls pushed, each with the
\* two end points of its edge in the order of the vertex buffer
RECURSIVE AddExteriorLoop(_, _, _, _, _, _, _)
AddExteriorLoop(flatPolygon, tileSize, start, holeIndex, nextHole, clockwise, walls) ==
    LET verts == flatPolygon.vertices
        stop == flatPolygon.stop - 3
    IN  IF ~(start < stop) THEN walls
        ELSE LET i == flatPolygon.start + stop - start
                 p1 == IF clockwise THEN VertexAt(verts, i) ELSE VertexAt(verts, start)
                 p2 == IF clockwise THEN VertexAt(verts, i - 3) ELSE VertexAt(verts, start + 3)
                 walls1 == IF EmitsWall(p1, p2, tileSize) THEN Append(walls, <<p1, p2>>)
                           ELSE walls
             IN  IF start = nextHole
                 THEN LET nextHole1 == NextHole(flatPolygon, holeIndex + 1)
                      IN  AddExteriorLoop(flatPolygon, tileSize, start + 6, holeIndex + 1,
                                          nextHole1,
                                          RingArea(flatPolygon, start + 6, nextHole1, stop) < 0,
                                          walls1)
                 ELSE AddExteriorLoop(flatPolygon, tileSize, start + 3, holeIndex, nextHole,
                                      clockwise, walls1)

\* addExterior(flatPolygon, vertex, normals, vIndex, tileSize, extrude, extrudeBase)
AddExterior(flatPolygon, tileSize) ==
    LET start == flatPolygon.start
        stop == flatPolygon.stop - 3
        nextHole == IF flatPolygon.holes = <<>> THEN NaN
                    ELSE start + flatPolygon.holes[1] * 3 - 6
    IN  AddExteriorLoop(flatPolygon, tileSize, start, 0, nextHole,
                        RingArea(flatPolygon, start, nextHole, stop) >= 0, <<>>)

\* addExtrude(vertex, normals, vIndex, coordinates, tile, tileSize, extrude,
\* extrudeBase) for the rings of one polygon: the walls pushed
AddExtrudeWalls(rings, tileSize, extrude) ==
    IF extrude > MIN_VISIBLE_HEIGHT THEN AddExterior(FlatPolygonOf(rings), tileSize)
    ELSE <<>>

\* the closed ring through the points
Ring(points) == Append(points, points[1])

\* corner points of rings: outside the tile on three sides, inside, a
\* quarter and half a pixel off another point, and on the tile's border
ExtrudePoints ==
    {Pt(-100, 300), Pt(300, -100), Pt(-100, -100), Pt(100, 100),
     <<100 * Px + 2, 100 * Px + 2>>, <<100 * Px + 4, 100 * Px>>, Pt(512, 200)}

\* a courtyard of three and of four corners
HoleRings ==
    {Ring(<<Pt(120, 120), Pt(120, 160), Pt(160, 120)>>),
     Ring(<<Pt(120, 120), Pt(160, 120), Pt(120, 160)>>),
     Ring(<<Pt(120, 120), Pt(120, 160), Pt(160, 160), Pt(160, 120)>>)}

\* a block of four corners around the courtyards, in both directions
BlockRings ==
    {Ring(<<Pt(100, 100), Pt(200, 100), Pt(200, 200), Pt(100, 200)>>),
     Ring(<<Pt(100, 100), Pt(100, 200), Pt(200, 200), Pt(200, 100)>>)}

\* the polygons extruded: triangles over the corner points, and blocks with
\* and without a courtyard
ExtrudePolygons ==
    {<<Ring(<<a, b, c>>)>> : a, b, c \in ExtrudePoints} \cup
    {<<r>> : r \in BlockRings} \cup
    {<<r, h>> : r \in BlockRings, h \in HoleRings}

\* extrusion heights, in hundredths: the threshold, just above, 10
ExtrudeHeights == {1, 2, 1000}

AddExtrude(rings, tileSize, extrude) ==
    /\ ret' = [op |-> "addExtrude", val |-> FALSE, threw |-> FALSE, boxes |-> <<>>,
               rings |-> rings, tileSize |-> tileSize, extrude |-> extrude,
               walls |-> AddExtrudeWalls(rings, tileSize, extrude)]
    /\ UNCHANGED <<collisionVars, displayVars, editorVars, taskVars>>

NextExtrude ==
    \E rings \in ExtrudePolygons, extrude \in ExtrudeHeights : AddExtrude(rings, 512, extrude)

SpecExtrude == Init /\ [][NextExtrude]_vars

-----------------------------------------------------------------------------
(* Display.update and the animation frame, with the frame callback in two   *)
(* steps: viewport() starts, and viewport() has returned.  Calls made       *)
(* between the two are calls made by viewport() itself.                     *)

\* Display.update(dirty), called from outside or by viewport()
UpdateCall(dirtyArg) ==
    /\ LET u == DisplayUpdate(updating, dirty, dirtyArg)
       IN  /\ updating' = u.updating
           /\ dirty' = u.dirty
    /\ frame' = RequestFrame(frame, updating)
    /\ ret' = [op |-> "displayUpdate", val |-> FALSE, threw |-> FALSE, boxes |-> <<>>,
               dirtyArg |-> dirtyArg, requested |-> frame'.pending # frame.pending]
    /\ UNCHANGED <<layers, buckets, gridVars, collisionVars, editorVars, taskVars>>

\* a requested animation frame fires: the callback of lines 549-552 starts
\* and calls viewport()
FrameFires ==
    /\ frame.pending > 0
    /\ ~frame.running
    /\ buckets' = ViewportRender(buckets)
    /\ frame' = [pending |-> frame.pending - 1, running |-> TRUE, owed |-> FALSE]
    /\ ret' = Ret("viewport", FALSE)
    /\ UNCHANGED <<layers, updating, dirty, gridVars, collisionVars, editorVars, taskVars>>

\* viewport() has returned: the callback clears updating (line 551)
FrameEnds ==
    /\ frame.running
    /\ updating' = FALSE
    /\ frame' = [frame EXCEPT !.running = FALSE]
    /\ ret' = Ret("frameEnd", FALSE)
    /\ UNCHANGED <<layers, buckets, dirty, gridVars, collisionVars, editorVars, taskVars>>

FrameQuadkeys == {Tile03.quadkey, Tile12.quadkey}

NextFrame ==
    \/ ~frame.running /\ AddLayer(Layer512)
    \/ ~frame.running /\ \E quadkey \in FrameQuadkeys : HandleTile(quadkey, Layer512)
    \/ \E quadkey \in FrameQuadkeys : TileProcessed(quadkey, Layer512)
    \/ \E dirtyArg \in BOOLEAN : UpdateCall(dirtyArg)
    \/ FrameFires
    \/ FrameEnds

SpecFrame == Init /\ [][NextFrame]_vars

\* the browser runs a requested animation frame, and viewport() returns
SpecFrameFair == SpecFrame /\ WF_vars(FrameFires) /\ WF_vars(FrameEnds)

-----------------------------------------------------------------------------
(* mvtPreProcessor: the chunked decoding of an MVT tile.  A tile is the     *)
(* list of the feature counts of its layers, in the order in which the     *)
(* layers are enumerated; a decoded feature is the pair of its layer's and  *)
(* its own index.  The features' ids (a global counter) are not modelled.   *)

BUNDLE_FEATURE_SIZE == 16

MaxMvtLayers == 2

\* the feature counts of a layer: none, one, a bundle, and one and two
\* bundles with a rest
MvtLayerLengths == {0, 1, 16, 17, 33}

MvtTiles == UNION {[1..n -> MvtLayerLengths] : n \in 0..MaxMvtLayers}

CONTINUE_ == "CONTINUE"

BREAK_ == "BREAK"

\* init (lines 294-314)
DecodeInit(mvt) == [layers |-> mvt, l |-> 0, f |-> 0, geojson |-> <<>>]

\* exec, the loop over the features of layer l from feature f (lines 328-351):
\* the task's data when the loop is left
RECURSIVE DecodeFeatures(_, _, _)
DecodeFeatures(data, f, geojson) ==
    IF f < data.layers[data.l + 1]
    THEN LET geojson1 == Append(geojson, <<data.l, f>>)
         IN  IF (f + 1) % BUNDLE_FEATURE_SIZE = 0
             THEN [data EXCEPT !.f = f + 1, !.geojson = geojson1]
             ELSE DecodeFeatures(data, f + 1, geojson1)
    ELSE [data EXCEPT !.l = data.l + 1, !.f = 0, !.geojson = geojson]

DecodeExec_NoReset(data) ==
    IF data.l < Len(data.layers)
    THEN LET d == DecodeFeatures(data, data.f, data.geojson)
         IN  [data |-> IF d.l # data.l THEN [d EXCEPT !.f = data.f] ELSE d,
              code |-> CONTINUE_]
    ELSE [data |-> data, code |-> BREAK_]

\* exec(data) (lines 318-360): the task's data afterwards and what exec returns
DecodeExec(data) ==
    IF data.l < Len(data.layers)
    THEN [data |-> DecodeFeatures(data, data.f, data.geojson), code |-> CONTINUE_]
    ELSE [data |-> data, code |-> BREAK_]

\* mvtPreProcessor(prep) for a tile, while no other tile is being decoded
MvtPreProcessor(mvt) ==
    /\ IF decode = NULL THEN TRUE ELSE decode.done
    /\ decode' = [data |-> DecodeInit(mvt), done |-> FALSE, ready |-> NULL]
    /\ ret' = Ret("mvtPreProcessor", FALSE)
    /\ UNCHANGED <<collisionVars, displayVars, editorVars>>

\* the task manager runs the task for one step: it calls exec and, when exec
\* returns BREAK, onDone (lines 362-364), which hands the features to prep.ready
TaskStep ==
    /\ decode # NULL
    /\ ~decode.done
    /\ LET r == DecodeExec(decode.data)
       IN  /\ decode' = [data |-> r.data, done |-> r.code = BREAK_,
                         ready |-> IF r.code = BREAK_ THEN <<r.data.geojson>> ELSE NULL]
           /\ ret' = [op |-> "exec", val |-> FALSE, threw |-> FALSE, boxes |-> <<>>,
                      code |-> r.code]
    /\ UNCHANGED <<collisionVars, displayVars, editorVars>>

NextDecode ==
    \/ \E mvt \in MvtTiles : MvtPreProcessor(mvt)
    \/ TaskStep

SpecDecode == Init /\ [][NextDecode]_vars

\* the task manager runs a task that has been started until it ends
SpecDecodeFair == SpecDecode /\ WF_vars(TaskStep)

-----------------------------------------------------------------------------
(* The Editor on a map: pointer events, destroy() and the drawing board     *)

\* the container positions the pointer is moved to, clicked and dragged at
Pointers == {<<100, 100>>, <<150, 100>>, <<200, 100>>}

\* the link the destroy test adds to the editor
Navlink == <<<<100, 100>>, <<200, 100>>>>

MaxShapePoints == 2

\* how far the map is panned in the runs explored: one drag either way
Centers == {<<x, 0>> : x \in {-100, -50, 0, 50, 100}}

\* the first feature of the editor with a shape point at p, 0 when none
FeatureAt(e, p) ==
    IF \E i \in 1..Len(e.features) : \E k \in 1..Len(e.features[i]) : e.features[i][k] = p
    THEN CHOOSE i \in 1..Len(e.features) :
            /\ \E k \in 1..Len(e.features[i]) : e.features[i][k] = p
            /\ \A j \in 1..(i - 1) : \A k \in 1..Len(e.features[j]) : e.features[j][k] # p
    ELSE 0

\* a shape point of the drawing board lies at p
ShapeAt(points, p) == \E k \in 1..Len(points) : points[k] = p

\* the editor takes a pointer-down at p for itself: it is listening and p
\* is a shape point of the selected feature
EditorConsumes(e, p) ==
    /\ e.alive
    /\ e.selected # 0
    /\ \E k \in 1..Len(e.features[e.selected]) : e.features[e.selected][k] = p

\* a click at p: on an active drawing board it adds a shape point, otherwise
\* it selects the feature under the pointer (or none)
ClickResult(e, p) ==
    IF ~e.alive THEN e
    ELSE IF e.board.active
         THEN [e EXCEPT !.board.points = Append(@, p), !.board.hover = TRUE]
         ELSE [e EXCEPT !.selected = FeatureAt(e, p)]

\* the selected feature with its shape points at from moved to to
MoveShape(e, from, to) ==
    [e EXCEPT !.features[e.selected] =
        [k \in 1..Len(@) |-> IF @[k] = from THEN to ELSE @[k]]]

\* a drag from one position to another: the editor moves the shape point it
\* took the pointer for, otherwise the map is panned
DragResult(e, c, from, to) ==
    IF EditorConsumes(e, from)
    THEN [editor |-> MoveShape(e, from, to), center |-> c]
    ELSE [editor |-> e, center |-> <<c[1] - (to[1] - from[1]), c[2] - (to[2] - from[2])>>]

MouseMoveResult_AddsPoint(e, to) ==
    IF e.alive /\ e.board.active /\ Len(e.board.points) < MaxShapePoints
    THEN [e EXCEPT !.board.points = Append(@, to), !.board.hover = ShapeAt(e.board.points, to)]
    ELSE e

\* the pointer moves to a position without a button pressed: an active
\* drawing board notes the shape point under the pointer
MouseMoveResult(e, to) ==
    IF e.alive /\ e.board.active
    THEN [e EXCEPT !.board.hover = ShapeAt(e.board.points, to)]
    ELSE e

DestroyResult_KeepsState(e) == [e EXCEPT !.alive = FALSE]

\* editor.destroy(): the listeners are removed and every property deleted
DestroyResult(e) ==
    [alive |-> FALSE, props |-> {}, features |-> <<>>, selected |-> 0, board |-> NoBoard]

\* drawingBoard.start()
BoardStartResult(e) == IF e.alive THEN [e EXCEPT !.board = [NoBoard EXCEPT !.active = TRUE]] ELSE e

\* drawingBoard.cancel()
BoardCancelResult(e) == IF e.alive THEN [e EXCEPT !.board = NoBoard] ELSE e

\* drawingBoard.create(properties): the link with the board's shape points,
\* added to the editor; nothing below two points
BoardCreateResult(e) ==
    IF e.alive /\ e.board.active /\ Len(e.board.points) >= 2
    THEN [e EXCEPT !.features = Append(@, e.board.points), !.board = NoBoard]
    ELSE e

AddFeature(coordinates) ==
    /\ editor.alive
    /\ editor.features = <<>>
    /\ editor' = [editor EXCEPT !.features = Append(@, coordinates)]
    /\ ret' = Ret("addFeature", TRUE)
    /\ UNCHANGED <<center, collisionVars, displayVars, taskVars>>

EditorClick(p) ==
    /\ Len(editor.board.points) < MaxShapePoints
    /\ editor' = ClickResult(editor, p)
    /\ ret' = Ret("click", FALSE)
    /\ UNCHANGED <<center, collisionVars, displayVars, taskVars>>

EditorDrag(from, to) ==
    LET r == DragResult(editor, center, from, to)
    IN  /\ from # to
        /\ r.center \in Centers
        /\ editor' = r.editor
        /\ center' = r.center
        /\ ret' = Ret("drag", r.center = center)
        /\ UNCHANGED <<collisionVars, displayVars, taskVars>>

MouseMove(to) ==
    /\ editor' = MouseMoveResult(editor, to)
    /\ ret' = Ret("mousemove", FALSE)
    /\ UNCHANGED <<center, collisionVars, displayVars, taskVars>>

EditorDestroy ==
    /\ editor' = DestroyResult(editor)
    /\ ret' = Ret("destroy", FALSE)
    /\ UNCHANGED <<center, collisionVars, displayVars, taskVars>>

BoardStart ==
    /\ editor' = BoardStartResult(editor)
    /\ ret' = Ret("start", FALSE)
    /\ UNCHANGED <<center, collisionVars, displayVars, taskVars>>

BoardCancel ==
    /\ editor' = BoardCancelResult(editor)
    /\ ret' = Ret("cancel", FALSE)
    /\ UNCHANGED <<center, collisionVars, displayVars, taskVars>>

\* create() returns the link, or nothing
BoardCreate ==
    /\ editor.features = <<>>
    /\ editor' = BoardCreateResult(editor)
    /\ ret' = [op |-> "create", val |-> editor' # editor, threw |-> FALSE, boxes |-> <<>>,
                coord |-> IF editor' # editor THEN editor.board.points ELSE <<>>]
    /\ UNCHANGED <<center, collisionVars, displayVars, taskVars>>

NextEditor ==
    \/ AddFeature(Navlink)
    \/ \E p \in Pointers : EditorClick(p)
    \/ \E from \in Pointers : \E to \in Pointers : EditorDrag(from, to)
    \/ \E to \in Pointers : MouseMove(to)
    \/ EditorDestroy
    \/ BoardStart
    \/ BoardCancel
    \/ BoardCreate

SpecEditor == Init /\ [][NextEditor]_vars

-----------------------------------------------------------------------------
(* Notions the properties below are stated with                             *)

\* the data stored in slot dataKey of cache tile key, <<>> when there is none
SlotData(T, key, dataKey) ==
    IF key \in DOMAIN T /\ HasSlot(T[key], dataKey)
    THEN T[key][SlotIndex(T[key], dataKey)].data
    ELSE <<>>

\* the screen-space candidates of a pass over the visible tiles, unsorted
ScreenList == CollectCollisionData(tiles, display.tiles, display.s, display.rz)

\* the visibility bit of the buffer range of a screen-space candidate
VisibleOnScreen(e) ==
    \A a \in 1..Len(tiles[e.ref[1]][e.ref[2]].data[e.ref[3]].attrs) :
        AttrVisible(tiles[e.ref[1]][e.ref[2]].data[e.ref[3]].attrs[a])

BothSlope(e1, e2) == e1.slope # <<>> /\ e2.slope # <<>>

AfterPass == ret.op = "pass"

OpenBatch == curLayerTileCollision[1]

Pending == timer # NULL /\ timer[1] \in DOMAIN timeouts

-----------------------------------------------------------------------------
(* C1: within one registration batch the boxes of any two distinct        *)
(* accepted candidates do not intersect, and no accepted candidate's box   *)
(* intersects a box of the obstacle set gathered by initTile.              *)
C1_BatchHasNoOverlap ==
    curLayerTileCollision # NULL =>
        /\ \A i, j \in 1..Len(OpenBatch.data) :
              i # j => ~Intersects(OpenBatch.data[i], <<OpenBatch.data[j]>>)
        /\ \A i \in 1..Len(OpenBatch.data) :
              \A n \in 1..Len(OpenBatch.existing) :
                 ~Intersects(OpenBatch.data[i], OpenBatch.existing[n].data)

\* a batch with two accepted candidates, neighbour data and data of another
\* slot of the same cache tile, in which the last insert was rejected
C1_Witness ==
    /\ curLayerTileCollision # NULL
    /\ Len(OpenBatch.data) = 2
    /\ Len(OpenBatch.existing) = 2
    /\ \A n \in 1..2 : OpenBatch.existing[n].data # <<>>
    /\ ret.op = "insert" /\ ~ret.threw /\ ~ret.val

-----------------------------------------------------------------------------
(* C2 as stated: after a full phase-2 pass no two candidates left visible  *)
(* have intersecting screen-space boxes.                                   *)
C2_NoVisibleOverlap ==
    AfterPass =>
        \A i, j \in 1..Len(ScreenList) :
            (i # j /\ VisibleOnScreen(ScreenList[i]) /\ VisibleOnScreen(ScreenList[j]))
                => ~Intersects(ScreenList[i], <<ScreenList[j]>>)

(* C2 as amended: after a full phase-2 pass no two candidates left visible, *)
(* of which at least one is viewport-aligned (has no slope), have           *)
(* intersecting screen-space boxes; two slope-aligned candidates are not    *)
(* checked against each other.                                              *)
C2_NoVisibleOverlapAcrossClasses ==
    AfterPass =>
        \A i, j \in 1..Len(ScreenList) :
            (/\ i # j
             /\ ~BothSlope(ScreenList[i], ScreenList[j])
             /\ VisibleOnScreen(ScreenList[i])
             /\ VisibleOnScreen(ScreenList[j]))
                => ~Intersects(ScreenList[i], <<ScreenList[j]>>)

\* a pass has hidden one of two intersecting candidates that are not both slope-aligned
C2_Witness ==
    /\ AfterPass
    /\ \E i, j \in 1..Len(ScreenList) :
          /\ i # j
          /\ Intersects(ScreenList[i], <<ScreenList[j]>>)
          /\ ~BothSlope(ScreenList[i], ScreenList[j])
          /\ VisibleOnScreen(ScreenList[i])
          /\ ~VisibleOnScreen(ScreenList[j])

-----------------------------------------------------------------------------
(* C3 as stated: of two candidates whose boxes overlap, with priorities    *)
(* p1 < p2, after a pass the one with p1 is visible and the one with p2    *)
(* is hidden.                                                              *)
C3_LowerPriorityValueWins ==
    AfterPass =>
        \A i, j \in 1..Len(ScreenList) :
            (/\ Intersects(ScreenList[i], <<ScreenList[j]>>)
             /\ ScreenList[i].priority < ScreenList[j].priority)
                => (VisibleOnScreen(ScreenList[i]) /\ ~VisibleOnScreen(ScreenList[j]))

(* C3 as amended: of two candidates whose screen boxes overlap, with       *)
(* priorities p1 < p2 and not both slope-aligned, after a pass the one     *)
(* with p1 is visible and the one with p2 is hidden, provided the p1       *)
(* candidate is not itself hidden by a visible candidate of priority       *)
(* <= p1 that intersects it (the two not both slope-aligned); this holds   *)
(* regardless of insertion order.                                          *)
C3_LowerPriorityValueWinsUnlessHidden ==
    AfterPass =>
        \A i, j \in 1..Len(ScreenList) :
            (/\ Intersects(ScreenList[i], <<ScreenList[j]>>)
             /\ ScreenList[i].priority < ScreenList[j].priority
             /\ ~BothSlope(ScreenList[i], ScreenList[j])
             /\ \A k \in 1..Len(ScreenList) :
                   (/\ k # i
                    /\ ScreenList[k].priority <= ScreenList[i].priority
                    /\ Intersects(ScreenList[k], <<ScreenList[i]>>)
                    /\ ~BothSlope(ScreenList[k], ScreenList[i]))
                       => ~VisibleOnScreen(ScreenList[k]))
                => (VisibleOnScreen(ScreenList[i]) /\ ~VisibleOnScreen(ScreenList[j]))

\* a pass in which the candidate with the lower priority value, inserted
\* after the other one, is visible and the other one is hidden
C3_Witness ==
    /\ AfterPass
    /\ \E i, j \in 1..Len(ScreenList) :
          /\ Intersects(ScreenList[i], <<ScreenList[j]>>)
          /\ ScreenList[i].priority < ScreenList[j].priority
          /\ ScreenList[i].ref[1] = ScreenList[j].ref[1]
          /\ ScreenList[i].ref[2] = ScreenList[j].ref[2]
          /\ ScreenList[j].ref[3] < ScreenList[i].ref[3]
          /\ VisibleOnScreen(ScreenList[i])
          /\ ~VisibleOnScreen(ScreenList[j])

-----------------------------------------------------------------------------
(* C4: a second phase-2 pass, run with no change to the cached collision   *)
(* data, the visible tiles or the camera since the first, leaves every     *)
(* visibility bit and every dirty flag as they are, reports no update and  *)
(* does not invoke its callback.                                           *)
C4_SecondPassChangesNothing ==
    AfterPass =>
        \A callback \in BOOLEAN :
            /\ TimeoutCallback(tiles, display, callback).tiles = tiles
            /\ ~TimeoutCallback(tiles, display, callback).updated
            /\ ~TimeoutCallback(tiles, display, callback).called

\* a first pass that did toggle buffers and invoked its callback
C4_Witness == AfterPass /\ ret.val /\ ret.called

-----------------------------------------------------------------------------
\* the parent of a tile in the tile pyramid
ParentTile(tile) == MkTile(tile.z - 1, tile.y \div 2, tile.x \div 2)

\* the tiles of the zoom levels 1 to 3
PyramidTiles ==
    {MkTile(z, y, x) : <<z, y, x>> \in
        {<<z, y, x>> \in (1..3) \X (0..7) \X (0..7) : y < Pow2(z) /\ x < Pow2(z)}}

\* the pairs of jobs of a 256-size layer at Q and a 512-size layer at Q's parent
FoldedJobs ==
    {<<j256, j512>> \in Jobs \X Jobs :
        /\ j256.layer.tileSize = 256
        /\ j512.layer.tileSize = 512
        /\ j512.tile = ParentTile(j256.tile)}

CommittedFor(job) ==
    SlotData(tiles, GetTileCacheKey(job.tile.quadkey, job.layer),
             GetDataKey(job.tile.quadkey, job.layer))

BatchOpenFor(job) ==
    /\ curLayerTileCollision # NULL
    /\ OpenBatch.dataKey = GetDataKey(job.tile.quadkey, job.layer)

(* C5: a tile of a 256-size layer at quadkey Q and a tile of a 512-size    *)
(* layer at Q's parent use the same tile-cache key, and a candidate        *)
(* inserted for either one is rejected when its box intersects an entry    *)
(* committed for the other: what is accepted for one never intersects what *)
(* is committed for the other.                                             *)
C5_CacheKeyFolding ==
    /\ \A t \in PyramidTiles :
          GetTileCacheKey(t.quadkey, Layer256) = GetTileCacheKey(ParentTile(t).quadkey, Layer512)
    /\ \A p \in FoldedJobs :
          /\ \A i \in 1..Len(CommittedFor(p[1])) :
                ~Intersects(CommittedFor(p[1])[i], CommittedFor(p[2]))
          /\ BatchOpenFor(p[1]) =>
                \A i \in 1..Len(OpenBatch.data) :
                    ~Intersects(OpenBatch.data[i], CommittedFor(p[2]))
          /\ BatchOpenFor(p[2]) =>
                \A i \in 1..Len(OpenBatch.data) :
                    ~Intersects(OpenBatch.data[i], CommittedFor(p[1]))

\* an insert for the 256-size tile was rejected because of an entry committed
\* for the 512-size tile at the parent quadkey, next to an accepted one
C5_Witness ==
    \E p \in FoldedJobs :
        /\ BatchOpenFor(p[1])
        /\ OpenBatch.data # <<>>
        /\ ret.op = "insert" /\ ~ret.threw /\ ~ret.val
        /\ Intersects([boxes |-> ret.boxes], CommittedFor(p[2]))
        /\ ~Intersects([boxes |-> ret.boxes], OpenBatch.data)

-----------------------------------------------------------------------------
(* C6: an insert whose candidate intersects a box accepted in the open     *)
(* batch or a box of the obstacle set returns false and leaves the batch,  *)
(* the updated flag and the tile cache as they were.                       *)
C6_RejectedInsertRecordsNothing ==
    [][\A job \in Jobs : \A c \in CandsOf(job) :
          (/\ curLayerTileCollision # NULL
           /\ InsertCollides(MkCollisionData(c, job.tile, job.layer.tileSize), OpenBatch)
           /\ Insert(c, job))
              => (/\ ~ret'.val
                  /\ UNCHANGED <<curLayerTileCollision, updated, tiles>>)]_vars

\* insert(cx=10, cy=10, halfWidth=5, halfHeight=5, priority=1) was accepted
\* and insert(cx=12, cy=12, priority=2) in the same batch returned false
C6_Witness ==
    /\ BatchOpenFor(Job(Tile03, Layer512))
    /\ Len(OpenBatch.data) = 1
    /\ OpenBatch.data[1].boxes = MkCollisionData(CandA, Tile03, 512).boxes
    /\ ret.op = "insert" /\ ~ret.threw /\ ~ret.val
    /\ ret.boxes = MkCollisionData(CandB, Tile03, 512).boxes

-----------------------------------------------------------------------------
(* C7 as stated: the scheduled pass runs 150 ms after the latest update    *)
(* call; an update call made while a pass is pending moves the pass.       *)
C7_PassAfterLatestCall ==
    Pending => timeouts[timer[1]].left = UPDATE_DELAY_MS - calls[2]

(* C7 as amended: the scheduled pass runs 150 ms after the first update    *)
(* call made while no pass was pending; an update call made while a pass   *)
(* is pending does not move the pass.                                      *)
C7_PassAfterFirstCall ==
    /\ timer # NULL => Pending /\ calls # <<>>
    /\ Pending => timeouts[timer[1]].left = UPDATE_DELAY_MS - calls[1]

\* a further update call was made while the pass was pending
C7_Witness == Pending /\ ret.op = "update" /\ calls[1] > calls[2]

-----------------------------------------------------------------------------
(* C8: at most one phase-2 pass is scheduled at any time: update called    *)
(* while a pass is pending starts no second timer, and an update call made *)
(* after the pass has run schedules a new pass.                            *)
C8_AtMostOnePassScheduled ==
    /\ Cardinality(DOMAIN timeouts) <= 1
    /\ timer = NULL <=> DOMAIN timeouts = {}
    /\ timer # NULL => timer[1] \in DOMAIN timeouts
    /\ ret.op = "update" => Pending

\* update was called 100 ms after the call that scheduled the pending pass
C8_Witness ==
    /\ ret.op = "update"
    /\ Cardinality(DOMAIN timeouts) = 1
    /\ calls = <<100, 0>>

-----------------------------------------------------------------------------
(* C9: every update call is followed by a pass that starts after the call  *)
(* and no later than 150 ms after it: while a call waits for its pass, a   *)
(* pass is scheduled and is due before the call is 150 ms old.             *)
C9_PassWithinDelayOfEveryCall ==
    /\ [](calls # <<>> =>
            /\ Pending
            /\ \A i \in 1..Len(calls) :
                  calls[i] + timeouts[timer[1]].left <= UPDATE_DELAY_MS)
    /\ (calls # <<>>) ~> (AfterPass /\ calls = <<>>)

\* the pass is due now: the oldest waiting call is 150 ms old, a later one 50 ms
C9_Witness ==
    /\ Pending
    /\ timeouts[timer[1]].left = 0
    /\ calls = <<UPDATE_DELAY_MS, 50>>

-----------------------------------------------------------------------------
\* p is a prefix of str (a quadkey is a prefix of the quadkeys of its descendants)
IsPrefix(p, str) == Len(p) <= Len(str) /\ SubSeq(str, 1, Len(p)) = p

\* quadkey equals, is a prefix of, or has as a prefix some key of keys
RelatedToSomeKey(quadkey, keys) ==
    \E c \in 1..Len(keys) :
        \/ quadkey = keys[c]
        \/ IsPrefix(quadkey, keys[c])
        \/ IsPrefix(keys[c], quadkey)

\* after is before with the slot of the layer at index invalidated: its data
\* cleared, not ready, no task of the layer; the other slots and tasks as before
Invalidated(before, after, index, layer) ==
    /\ after.quadkey = before.quadkey
    /\ after.data = [before.data EXCEPT ![index + 1] = NULL]
    /\ after.r = [before.r EXCEPT ![index + 1] = FALSE]
    /\ after.tasks = SelectSeq(before.tasks, LAMBDA task : task.layer # layer.id)

\* the step is a call of clear(layer, keys)
ClearStep(layer, keys) == ret'.op = "clear" /\ ret'.layer = layer /\ ret'.keys = keys

(* C10: FeatureModifier.clear(layer, keys) invalidates (clears the layer's *)
(* data, sets ready to false, cancels the layer's tasks) exactly the       *)
(* cached buckets whose quadkey equals, is a prefix of, or has as a prefix *)
(* some key of keys, or every cached bucket when keys is absent or empty;  *)
(* every other bucket is left untouched.                                   *)
C10_ClearInvalidatesDependentBuckets ==
    [][\A layer \in Layers : \A keys \in ClearedQuadkeys :
          ClearStep(layer, keys) =>
              /\ DOMAIN buckets' = DOMAIN buckets
              /\ \A qk \in DOMAIN buckets :
                    IF keys = NULL \/ keys[1] = <<>> \/ RelatedToSomeKey(qk, keys[1])
                    THEN Invalidated(buckets[qk], buckets'[qk], IndexOf(layers, layer), layer)
                    ELSE buckets'[qk] = buckets[qk]]_vars

\* clear(layer, ["03"]) has run with the buckets "0", "03", "031" and "12"
\* cached: "12" is still ready for the layer and drawn, the other three are
\* not ready, and "031" is still ready for the other layer
C10_Witness ==
    /\ ret.op = "clear"
    /\ ret.layer = Layer512
    /\ ret.keys = <<<<Tile03.quadkey>>>>
    /\ DOMAIN buckets = BucketQuadkeys
    /\ Len(layers) = 2
    /\ LET index == IndexOf(layers, Layer512)
           other == IndexOf(layers, Layer256)
       IN  /\ TileIsReady(buckets[Tile12.quadkey], index)
           /\ buckets[Tile12.quadkey].luTs # NULL
           /\ \A qk \in {Tile0.quadkey, Tile03.quadkey, Tile031.quadkey} :
                 /\ ~TileIsReady(buckets[qk], index)
                 /\ buckets[qk].data[index + 1] = NULL
                 /\ buckets[qk].luTs = NULL
           /\ TileIsReady(buckets[Tile031.quadkey], other)

-----------------------------------------------------------------------------
(* FeatureModifier.updateGeometry                                          *)

\* how often updateGeometry called the per-tile operation op on the tile
CallCount(tileCalls, op, quadkey) ==
    Cardinality({i \in 1..Len(tileCalls) :
                    tileCalls[i].op = op /\ tileCalls[i].quadkey = quadkey})

InTiles(ts, quadkey) == \E i \in 1..Len(ts) : ts[i].quadkey = quadkey

\* C11: updateGeometry performs exactly one remove for each tile only in
\* the old tile set, exactly one add for each tile only in the new set and
\* exactly one modify for each tile in both, and touches no tile twice.
C11_OneCallPerTile ==
    ret.op = "updateGeometry" =>
        \A quadkey \in ModifierQuadkeys :
            LET old == InTiles(ret.prevTiles, quadkey)
                new == InTiles(ret.curTiles, quadkey)
                n(op) == CallCount(ret.calls, op, quadkey)
            IN  /\ n("remove") = (IF old /\ ~new THEN 1 ELSE 0)
                /\ n("add") = (IF new /\ ~old THEN 1 ELSE 0)
                /\ n("modify") = (IF old /\ new THEN 1 ELSE 0)

\* the tile sets {A, B} and {B, C} of the claim: the tile only in the old
\* set is removed twice
C11_Witness ==
    /\ ret.op = "updateGeometry"
    /\ ret.prevTiles = <<ProviderTile(Tile03.quadkey, TRUE), ProviderTile(Tile12.quadkey, TRUE)>>
    /\ ret.curTiles = <<ProviderTile(Tile12.quadkey, TRUE), ProviderTile(Tile13.quadkey, TRUE)>>
    /\ CallCount(ret.calls, "remove", Tile03.quadkey) = 2
    /\ CallCount(ret.calls, "modify", Tile12.quadkey) = 1
    /\ CallCount(ret.calls, "add", Tile13.quadkey) = 1

-----------------------------------------------------------------------------
(* BasicDisplay: tile callbacks, builds, layers and the grid               *)

\* a step in which the provider delivers the tile to the layer's callback
DataArrivesStep(quadkey, layer) ==
    /\ ret'.op = "dataArrives"
    /\ ret'.quadkey = quadkey
    /\ ret'.layer = layer

\* C12: a data-arrival callback of a layer for a tile that is not in the
\* layer's current screen-tile set is dropped: no bucket is created, no
\* readiness flag changes, no build starts, no error flag is set and no
\* error is raised.
C12_LateCallbackDropped ==
    [][\A quadkey \in GridQuadkeys, layer \in GridLayers :
          (DataArrivesStep(quadkey, layer) /\ ~IsVisible(dLayerTiles, quadkey, layer))
              => /\ buckets' = buckets
                 /\ layers' = layers
                 /\ updating' = updating
                 /\ dirty' = dirty
                 /\ errors' = errors
                 /\ ~ret'.threw]_vars

\* the callback of a layer of the display arrived for a tile that had left
\* the layer's screen tiles
C12_Witness ==
    /\ ret.op = "dataArrives"
    /\ IndexOf(layers, ret.layer) # -1
    /\ dLayerTiles[ret.layer.id] # <<>>
    /\ ~IsVisible(dLayerTiles, ret.quadkey, ret.layer)
    /\ IsLoaded(fetches, ret.quadkey, ret.layer)
    /\ ret.quadkey \notin DOMAIN buckets \/ ~TileBusy(buckets[ret.quadkey], ret.layer)

\* the number of pending builds of the layer on the bucket of the tile
TaskCount(B, quadkey, layer) ==
    IF quadkey \in DOMAIN B
    THEN Cardinality({i \in 1..Len(B[quadkey].tasks) : B[quadkey].tasks[i].layer = layer.id})
    ELSE 0

\* C13: a build of a (tile, layer) starts only when the bucket is not ready
\* for the layer, no build of the layer is pending on the bucket and the
\* tile has data; so at most one build per (bucket, layer) is in flight.
C13_AtMostOneBuildInFlight ==
    [][\A quadkey \in GridQuadkeys, layer \in GridLayers :
          /\ TaskCount(buckets', quadkey, layer) <= 1
          /\ TaskCount(buckets', quadkey, layer) > TaskCount(buckets, quadkey, layer)
                => /\ TaskCount(buckets, quadkey, layer) = 0
                   /\ quadkey \in DOMAIN buckets
                         => ~TileIsReady(buckets[quadkey], IndexOf(layers, layer))
                   /\ FetchedTile(fetches', quadkey, layer).data]_vars

\* a grid update handed a loaded, visible tile to the layer's callback
\* again while the build of the tile was pending
C13_Witness ==
    /\ ret.op = "updateGrid"
    /\ \E quadkey \in GridQuadkeys, layer \in GridLayers :
          /\ IsVisible(dLayerTiles, quadkey, layer)
          /\ IsLoaded(fetches, quadkey, layer)
          /\ TaskCount(buckets, quadkey, layer) = 1
          /\ ~TileIsReady(buckets[quadkey], IndexOf(layers, layer))
    /\ \E quadkey \in GridQuadkeys, layer \in GridLayers :
          /\ IsVisible(dLayerTiles, quadkey, layer)
          /\ FetchKey(quadkey, layer) \in DOMAIN fetches
          /\ fetches[FetchKey(quadkey, layer)] = "failed"
          /\ TaskCount(buckets, quadkey, layer) = 0

\* C14 as stated: when a build started by handleTile completes, the bucket
\* is marked ready for the layer and a display update is triggered.
C14_CompletionMarksReady ==
    ret.op = "tileProcessed" =>
        /\ TileIsReady(buckets[ret.quadkey], IndexOf(layers, ret.layer))
        /\ updating

\* C14, amended: when a build started by handleTile completes, a display
\* update is triggered, and the bucket is marked ready for the layer if
\* and only if the tile is loaded at that time.
C14_CompletionMarksReadyIfLoaded ==
    ret.op = "tileProcessed" =>
        /\ TileIsReady(buckets[ret.quadkey], IndexOf(layers, ret.layer))
              = IsLoaded(fetches, ret.quadkey, ret.layer)
        /\ updating

\* the build of a tile that holds local data while its request is still in
\* flight has completed
C14_Witness ==
    /\ ret.op = "tileProcessed"
    /\ fetches[FetchKey(ret.quadkey, ret.layer)] = "loading"
    /\ buckets[ret.quadkey].data[IndexOf(layers, ret.layer) + 1] # NULL
    /\ ~TileIsReady(buckets[ret.quadkey], IndexOf(layers, ret.layer))
    /\ ~TileBusy(buckets[ret.quadkey], ret.layer)
    /\ updating

\* the pending build of the layer on the bucket goes away in this step
BuildEnds(quadkey, layer) ==
    /\ TaskCount(buckets, quadkey, layer) > 0
    /\ TaskCount(buckets', quadkey, layer) = 0

RemoveLayerStep(layer) == ret'.op = "removeLayer" /\ ret'.layer = layer

\* the sequence without its element at the 0-based index
WithoutSlot(slots, index) ==
    [i \in 1..(Len(slots) - 1) |-> IF i <= index THEN slots[i] ELSE slots[i + 1]]

\* C16: removeLayer(layer) cancels the layer's pending tasks on every
\* bucket, removes the layer's slot from every bucket, releases the
\* in-flight fetch of every tile in the layer's screen tiles (and no other
\* fetch), removes the layer and its listeners, and returns the layer's
\* former index.
C16_RemoveLayerCleansUp ==
    [][\A layer \in GridLayers :
          RemoveLayerStep(layer) =>
              LET index == IndexOf(layers, layer)
              IN  /\ ret'.val = index
                  /\ index # -1
                  /\ ~ret'.threw
                  /\ DOMAIN buckets' = DOMAIN buckets
                  /\ \A quadkey \in DOMAIN buckets :
                        /\ buckets'[quadkey].tasks
                              = SelectSeq(buckets[quadkey].tasks,
                                          LAMBDA task : task.layer # layer.id)
                        /\ buckets'[quadkey].r = WithoutSlot(buckets[quadkey].r, index)
                        /\ buckets'[quadkey].data = WithoutSlot(buckets[quadkey].data, index)
                  /\ \A key \in DOMAIN fetches :
                        IF /\ key[1] = layer.id
                           /\ IsVisible(dLayerTiles, key[2], layer)
                           /\ fetches[key] = "loading"
                        THEN key \notin DOMAIN fetches'
                        ELSE key \in DOMAIN fetches' /\ fetches'[key] = fetches[key]
                  /\ IndexOf(layers', layer) = -1
                  /\ layers' = SelectSeq(layers, LAMBDA l : l # layer)
                  /\ listening' = listening \ {layer.id}]_vars

\* the second of two layers was removed while the request of one of its
\* screen tiles was in flight, and the other layer keeps a pending build
C16_Witness ==
    /\ ret.op = "removeLayer"
    /\ ret.val = 1
    /\ Len(layers) = 1
    /\ \E i \in 1..Len(dLayerTiles[ret.layer.id]) :
          FetchKey(dLayerTiles[ret.layer.id][i], ret.layer) \notin DOMAIN fetches
    /\ \E quadkey \in DOMAIN buckets :
          /\ TileBusy(buckets[quadkey], layers[1])
          /\ Len(buckets[quadkey].r) = 1

\* the tile is in the grid of the tile size before the step and not after it
LeavesGrid(quadkey, size) ==
    /\ ret'.op = "updateGrid"
    /\ \E i \in 1..Len(displayTiles[size]) : displayTiles[size][i] = quadkey
    /\ \A i \in 1..Len(displayTiles'[size]) : displayTiles'[size][i] # quadkey

\* C17: when a grid update makes a visible tile no longer visible at its
\* tile size, the pending builds of the tile's bucket are cancelled, and
\* for every layer rendered at that tile size (256 for a layer without
\* explicit tileSize) a not yet loaded in-flight fetch of the tile is released.
C17_LeavingTileReleased ==
    [][\A quadkey \in GridQuadkeys, size \in {256, 512} :
          LeavesGrid(quadkey, size) =>
              /\ quadkey \in DOMAIN buckets' => buckets'[quadkey].tasks = <<>>
              /\ \A i \in 1..Len(layers) :
                    (/\ LayerTileSize(layers[i]) = size
                     /\ FetchKey(quadkey, layers[i]) \in DOMAIN fetches
                     /\ fetches[FetchKey(quadkey, layers[i])] = "loading")
                        => FetchKey(quadkey, layers[i]) \notin DOMAIN fetches']_vars

\* after a grid update, the request of a tile that left the 256 grid is
\* still in flight for the layer without tileSize
C17_Witness ==
    /\ ret.op = "updateGrid"
    /\ IndexOf(layers, LayerNoSize) # -1
    /\ \E quadkey \in GridQuadkeys :
          /\ ~IsVisible(dLayerTiles, quadkey, LayerNoSize)
          /\ \A i \in 1..Len(displayTiles[256]) : displayTiles[256][i] # quadkey
          /\ FetchKey(quadkey, LayerNoSize) \in DOMAIN fetches
          /\ fetches[FetchKey(quadkey, LayerNoSize)] = "loading"

-----------------------------------------------------------------------------
(* CollisionHandler: the tile cache                                        *)

\* the slots of the cache as a set of (cache key, slot key, entries, position)
CacheSlots(T) ==
    UNION {{[tileKey |-> k, dataKey |-> T[k][i].key, data |-> T[k][i].data, at |-> i] :
               i \in 1..Len(T[k])} : k \in DOMAIN T}

\* the slots of the cache other than the slot (tileKey, dataKey), without
\* their positions
OtherSlots(T, tileKey, dataKey) ==
    {[tileKey |-> sl.tileKey, dataKey |-> sl.dataKey, data |-> sl.data] :
        sl \in {x \in CacheSlots(T) : ~(x.tileKey = tileKey /\ x.dataKey = dataKey)}}

\* C18: clearTile(quadkey, layer) changes nothing when the batch being
\* built has the same layer-quadkey key; otherwise it removes exactly that
\* slot from its cache entry, drops the cache entry when it becomes empty,
\* and leaves every other slot and the open batch unchanged.
C18_ClearTileRemovesOneSlot ==
    [][\A job \in Jobs :
          ClearTile(job) =>
              LET tileKey == GetTileCacheKey(job.tile.quadkey, job.layer)
                  dataKey == GetDataKey(job.tile.quadkey, job.layer)
              IN  /\ curLayerTileCollision' = curLayerTileCollision
                  /\ IF /\ curLayerTileCollision # NULL
                        /\ curLayerTileCollision[1].dataKey = dataKey
                     THEN tiles' = tiles
                     ELSE /\ OtherSlots(tiles', tileKey, dataKey)
                                = OtherSlots(tiles, tileKey, dataKey)
                          /\ \A sl \in CacheSlots(tiles') :
                                ~(sl.tileKey = tileKey /\ sl.dataKey = dataKey)
                          /\ DOMAIN tiles' \ {tileKey} = DOMAIN tiles \ {tileKey}
                          /\ tileKey \in DOMAIN tiles'
                                => tileKey \in DOMAIN tiles /\ tiles'[tileKey] # <<>>]_vars

\* after a clearTile, the batch of layer 1 for tile 03 is open and holds
\* entries, the cache entry 03 holds the slot of layer 2 alone, and there
\* is no cache entry 12
C18_Witness ==
    /\ ret.op = "clearTile"
    /\ curLayerTileCollision # NULL
    /\ curLayerTileCollision[1].dataKey = GetDataKey(Tile03.quadkey, Layer512)
    /\ curLayerTileCollision[1].data # <<>>
    /\ Tile03.quadkey \in DOMAIN tiles
    /\ Len(tiles[Tile03.quadkey]) = 1
    /\ HasSlot(tiles[Tile03.quadkey], GetDataKey(Tile031.quadkey, Layer256))
    /\ Tile12.quadkey \notin DOMAIN tiles

\* no cache entry holds two slots with the same layer-quadkey key
OneSlotPerKey(T) ==
    \A k \in DOMAIN T : \A i, j \in 1..Len(T[k]) : T[k][i].key = T[k][j].key => i = j

\* the entries of a batch without the contents of the attribute buffers
\* they point into
EntriesOf(data) ==
    [i \in 1..Len(data) |->
        [data[i] EXCEPT !.attrs = [a \in 1..Len(@) |-> [start |-> @[a].start,
                                                       stop |-> @[a].stop]]]]

\* the slots of the cache as a set of (cache key, slot key, entries)
SlotEntries(T) ==
    {[tileKey |-> sl.tileKey, dataKey |-> sl.dataKey, data |-> EntriesOf(sl.data)] :
        sl \in CacheSlots(T)}

\* C19: completeTile stores the open batch's accepted entries under
\* (cache key, layerId-quadkey), replacing what was stored in that slot,
\* and leaves all other slots unchanged; in every reachable state the cache
\* holds at most one entry list per (cache key, layer-tile) pair.
C19_CompleteTileStoresBatch ==
    /\ []OneSlotPerKey(tiles)
    /\ [][(/\ ret'.op = "completeTile"
           /\ ~ret'.threw
           /\ curLayerTileCollision # NULL
           /\ curLayerTileCollision' = NULL) =>
             LET cur == curLayerTileCollision[1]
                 stored == [tileKey |-> cur.tileKey, dataKey |-> cur.dataKey,
                            data |-> EntriesOf(cur.data)]
                 others == {sl \in SlotEntries(tiles) :
                               ~(sl.tileKey = cur.tileKey /\ sl.dataKey = cur.dataKey)}
             IN  /\ SlotEntries(tiles') = others \cup {stored}
                 /\ DOMAIN tiles' = DOMAIN tiles \cup {cur.tileKey}]_vars

\* a batch was committed into a cache entry that holds the slot of another
\* layer's tile, both with entries
C19_Witness ==
    /\ ret.op = "completeTile"
    /\ ~ret.threw
    /\ curLayerTileCollision = NULL
    /\ Tile03.quadkey \in DOMAIN tiles
    /\ Len(tiles[Tile03.quadkey]) = 2
    /\ \A i \in 1..2 : tiles[Tile03.quadkey][i].data # <<>>

\* the slot key is the key of a tile of the layer
SlotOfLayer(dataKey, layer) ==
    \E job \in Jobs : job.layer = layer /\ dataKey = GetDataKey(job.tile.quadkey, layer)

\* C20: removeTiles(layer) removes, in every cached tile, every slot whose
\* layer id is that of the removed layer, and leaves the slots of all other
\* layers unchanged.
C20_RemoveTilesPurgesLayer ==
    [][\A layer \in Layers :
          RemoveTiles(layer) =>
              /\ \A k \in DOMAIN tiles :
                    /\ k \in DOMAIN tiles'
                    /\ \A i \in 1..Len(tiles'[k]) : ~SlotOfLayer(tiles'[k][i].key, layer)
              /\ OneSlotPerKey(tiles')
              /\ {[tileKey |-> sl.tileKey, dataKey |-> sl.dataKey, data |-> sl.data] :
                     sl \in CacheSlots(tiles')}
                   = {[tileKey |-> sl.tileKey, dataKey |-> sl.dataKey, data |-> sl.data] :
                        sl \in {x \in CacheSlots(tiles) : ~SlotOfLayer(x.dataKey, layer)}}]_vars

\* after a removeTiles, the cache entry 03 holds the slot of one layer
\* alone, with entries, and the cache entry 12 is left without slots
C20_Witness ==
    /\ ret.op = "removeTiles"
    /\ Tile03.quadkey \in DOMAIN tiles
    /\ Len(tiles[Tile03.quadkey]) = 1
    /\ tiles[Tile03.quadkey][1].key = GetDataKey(Tile031.quadkey, Layer256)
    /\ tiles[Tile03.quadkey][1].data # <<>>
    /\ Tile12.quadkey \in DOMAIN tiles
    /\ tiles[Tile12.quadkey] = <<>>


-----------------------------------------------------------------------------
(* insert(): the box test and the boxes of a candidate                      *)

\* the boxes insert tests a candidate against: those of the open batch and
\* those of its existing object
ObstacleBoxes(cur) ==
    UNION {{cur.data[i].boxes[k] : k \in 1..Len(cur.data[i].boxes)} : i \in 1..Len(cur.data)}
    \cup UNION {UNION {{cur.existing[n].data[i].boxes[k] :
                           k \in 1..Len(cur.existing[n].data[i].boxes)} :
                       i \in 1..Len(cur.existing[n].data)} :
                n \in 1..Len(cur.existing)}

\* each box's min is <= the other's max on both axes
MinLeqMax(b1, b2) ==
    /\ b1.minX <= b2.maxX /\ b2.minX <= b1.maxX
    /\ b1.minY <= b2.maxY /\ b2.minY <= b1.maxY

\* the step is a call of insert on an open batch
InsertStep ==
    /\ curLayerTileCollision # NULL
    /\ \E job \in JobsInsert : \E c \in CandsInsert(job) : Insert(c, job)

\* C21: insert rejects a candidate if and only if one of its boxes and one
\* box of the batch or of the existing obstacles have, on both axes, each
\* one's min <= the other's max; boxes that only touch along an edge or at
\* a corner therefore count as intersecting.
C21_ClosedIntervalTest ==
    [][InsertStep =>
          ((ret'.val = FALSE) <=>
              \E k \in 1..Len(ret'.boxes) :
                  \E b2 \in ObstacleBoxes(curLayerTileCollision[1]) :
                      MinLeqMax(ret'.boxes[k], b2))]_vars

\* a candidate whose box shares only the corner point with the one accepted
\* box was offered and rejected
C21_Witness ==
    /\ ret.op = "insert" /\ ~ret.threw /\ ret.val = FALSE /\ ret.c = InsK
    /\ curLayerTileCollision # NULL
    /\ Len(curLayerTileCollision[1].data) = 1
    /\ LET b == curLayerTileCollision[1].data[1].boxes[1]
       IN  b.maxX = ret.boxes[1].minX /\ b.maxY = ret.boxes[1].minY

\* half the width and half the height of a box, its centre
HalfW(b) == (b.maxX - b.minX) \div 2
HalfH(b) == (b.maxY - b.minY) \div 2
CentreX(b) == (b.minX + b.maxX) \div 2
CentreY(b) == (b.minY + b.maxY) \div 2

\* insert was called with halfWidth 30, halfHeight 5 and slope [1, 0]
IsSlopeScenario ==
    /\ ret.op = "insert" /\ ~ret.threw
    /\ ret.c.halfWidth = 30 * Px /\ ret.c.halfHeight = 5 * Px
    /\ ret.c.slope = <<1 * Px, 0>>

\* the sub-boxes are more than one, and their centres differ in x only
SpacedAlongX(boxes) ==
    /\ Len(boxes) > 1
    /\ \A i, j \in 1..Len(boxes) :
          /\ CentreY(boxes[i]) = CentreY(boxes[j])
          /\ i # j => CentreX(boxes[i]) # CentreX(boxes[j])

\* C22 as stated: insert with halfWidth 30, halfHeight 5 and slope [1, 0]
\* gives more than one sub-box, none with a half-extent above
\* min(halfWidth, halfHeight), spaced along the x axis.
C22_SubBoxesWithinMin ==
    IsSlopeScenario =>
        /\ SpacedAlongX(ret.boxes)
        /\ \A k \in 1..Len(ret.boxes) :
              /\ HalfW(ret.boxes[k]) <= Min(ret.c.halfWidth, ret.c.halfHeight)
              /\ HalfH(ret.boxes[k]) <= Min(ret.c.halfWidth, ret.c.halfHeight)

\* C22: insert with halfWidth 30, halfHeight 5 and slope [1, 0] gives more
\* than one sub-box, each with the half-extent min(halfWidth, halfHeight)
\* plus the 4px buffer on both axes, with centres that differ in x only.
C22_SubBoxesWithinPaddedMin ==
    IsSlopeScenario =>
        /\ SpacedAlongX(ret.boxes)
        /\ \A k \in 1..Len(ret.boxes) :
              /\ HalfW(ret.boxes[k]) = Min(ret.c.halfWidth, ret.c.halfHeight) + boxBuffer
              /\ HalfH(ret.boxes[k]) = Min(ret.c.halfWidth, ret.c.halfHeight) + boxBuffer

C22_Witness ==
    /\ IsSlopeScenario /\ ret.val = TRUE /\ ret.tileSize = 512
    /\ Len(ret.boxes) = 3

\* the padded half-extents of the candidate of the last insert
PaddedMin == Min(ret.c.halfWidth, ret.c.halfHeight) + boxBuffer
PaddedMax == Max(ret.c.halfWidth, ret.c.halfHeight) + boxBuffer

\* the boxes are a chain of squares of the smaller padded half-extent
IsChain(boxes) ==
    /\ Len(boxes) > 1
    /\ \A k \in 1..Len(boxes) : HalfW(boxes[k]) = PaddedMin /\ HalfH(boxes[k]) = PaddedMin

\* the boxes are one box of the padded half-extents
IsSingleBox(boxes) ==
    /\ Len(boxes) = 1
    /\ HalfW(boxes[1]) = ret.c.halfWidth + boxBuffer
    /\ HalfH(boxes[1]) = ret.c.halfHeight + boxBuffer

\* C26 as stated: a candidate becomes a chain of square sub-boxes whenever
\* it has a slope and its larger half-extent is more than 1.5 times the
\* smaller, and a single box otherwise.
C26_ChainAboveOneAndAHalf ==
    (ret.op = "insert" /\ ~ret.threw) =>
        IF ret.c.slope # <<>> /\ 2 * PaddedMax > 3 * PaddedMin
        THEN IsChain(ret.boxes)
        ELSE IsSingleBox(ret.boxes)

\* C26: a candidate becomes a chain of square sub-boxes whenever it has a
\* slope and its larger padded half-extent is at least twice the smaller
\* (the ratio is rounded down before it is compared with 1.5), and a
\* single box otherwise.
C26_ChainFromTwo ==
    (ret.op = "insert" /\ ~ret.threw) =>
        IF ret.c.slope # <<>> /\ PaddedMax >= 2 * PaddedMin
        THEN IsChain(ret.boxes)
        ELSE IsSingleBox(ret.boxes)

\* a sloped candidate of ratio exactly 2 was accepted as a chain of two
C26_Witness ==
    /\ ret.op = "insert" /\ ~ret.threw /\ ret.val = TRUE
    /\ ret.c = InsE /\ Len(ret.boxes) = 2

\* the box of padded half-extents around the position (px, py) of the 512
\* tile (x, y), in world pixels
WorldBox(x, y, px, py, c) ==
    [minX |-> x * 512 * Px + px + c.offsetX - (c.halfWidth + boxBuffer),
     maxX |-> x * 512 * Px + px + c.offsetX + (c.halfWidth + boxBuffer),
     minY |-> y * 512 * Px + py + c.offsetY - (c.halfHeight + boxBuffer),
     maxY |-> y * 512 * Px + py + c.offsetY + (c.halfHeight + boxBuffer)]

\* insert was called for a tile of the given size with a candidate that
\* has one box
SingleBoxInsert(tileSize) ==
    /\ ret.op = "insert" /\ ~ret.threw
    /\ ret.tileSize = tileSize /\ ret.c.slope = <<>>

\* C27 as stated: for a 256 tile insert doubles the tile-local anchor and
\* offsets it into the parent 512 tile.
C27_AnchorDoubledAndOffset ==
    SingleBoxInsert(256) =>
        ret.boxes = <<WorldBox(ret.tile.x \div 2, ret.tile.y \div 2,
                               2 * ret.c.cx + (ret.tile.x % 2) * 256 * Px,
                               2 * ret.c.cy + (ret.tile.y % 2) * 256 * Px, ret.c)>>

\* C27: for a 256 tile insert keeps the scale of the tile-local anchor and
\* offsets it by 256px per odd tile coordinate into the parent 512 tile, so
\* the box is the one the same point of the parent 512 tile gets; for a 512
\* tile the anchor is taken as it is.
C27_AnchorOffsetIntoParent ==
    /\ SingleBoxInsert(256) =>
           ret.boxes = <<WorldBox(ret.tile.x \div 2, ret.tile.y \div 2,
                                  ret.c.cx + (ret.tile.x % 2) * 256 * Px,
                                  ret.c.cy + (ret.tile.y % 2) * 256 * Px, ret.c)>>
    /\ SingleBoxInsert(512) =>
           ret.boxes = <<WorldBox(ret.tile.x, ret.tile.y, ret.c.cx, ret.c.cy, ret.c)>>

\* the point (238, 10) of the 256 tile 031 got the box of the point
\* (494, 10) of the 512 tile 03
C27_Witness ==
    /\ SingleBoxInsert(256) /\ ret.val = TRUE
    /\ ret.tile = Tile031 /\ ret.c = CandQ
    /\ ret.boxes = <<WorldBox(Tile03.x, Tile03.y, InsQ512.cx, InsQ512.cy, InsQ512)>>


-----------------------------------------------------------------------------
(* The Editor: destroy() and the drawing board                              *)

-----------------------------------------------------------------------------
(* BasicDisplay.updateTile on a busy bucket                                 *)

\* the quadkeys of the tiles in two tile lists
QuadkeysOf(prevTiles, curTiles) ==
    {prevTiles[i].quadkey : i \in 1..Len(prevTiles)} \cup {curTiles[i].quadkey : i \in 1..Len(curTiles)}

\* C25: updateTile on a bucket on which a build of the layer is pending
\* starts no second build and leaves the bucket's ready flag as it is; the
\* pending build is marked outdated if and only if it is interrupted.
C25_BusyBucketKeepsOneBuild ==
    [][\A prevTiles \in CachedTileLists(fetches, Layer512),
          curTiles \in CachedTileLists(fetches, Layer512) :
          UpdateGeometry(prevTiles, curTiles, Layer512) =>
              \A quadkey \in QuadkeysOf(prevTiles, curTiles) :
                  (quadkey \in DOMAIN buckets /\ TileBusy(buckets[quadkey], Layer512)) =>
                      LET i == FirstTask(buckets[quadkey], Layer512)
                          index == IndexOf(layers, Layer512)
                      IN  /\ Len(buckets'[quadkey].tasks) = Len(buckets[quadkey].tasks)
                          /\ TaskCount(buckets', quadkey, Layer512) = 1
                          /\ TileIsReady(buckets'[quadkey], index)
                                = TileIsReady(buckets[quadkey], index)
                          /\ buckets'[quadkey].tasks[i].outdated
                                <=> buckets[quadkey].tasks[i].interrupted
                          /\ buckets'[quadkey].tasks[i].interrupted
                                = buckets[quadkey].tasks[i].interrupted]_vars

\* a geometry update has reached two busy buckets: the interrupted build of
\* one is marked outdated, the running build of the other is not
C25_Witness ==
    /\ ret.op = "updateGeometry"
    /\ \E q1, q2 \in QuadkeysOf(ret.prevTiles, ret.curTiles) :
          /\ q1 \in DOMAIN buckets /\ q2 \in DOMAIN buckets
          /\ TileBusy(buckets[q1], Layer512) /\ TileBusy(buckets[q2], Layer512)
          /\ buckets[q1].tasks[FirstTask(buckets[q1], Layer512)].interrupted
          /\ buckets[q1].tasks[FirstTask(buckets[q1], Layer512)].outdated
          /\ ~buckets[q2].tasks[FirstTask(buckets[q2], Layer512)].interrupted
          /\ ~buckets[q2].tasks[FirstTask(buckets[q2], Layer512)].outdated


-----------------------------------------------------------------------------
(* completeTile(true): the synchronous pass over the committed tile         *)

\* the step is completeTile(b) on an open batch
CompleteStep(b) == curLayerTileCollision # NULL /\ CompleteTile(b)

\* a pass over the screen projection of the cache tile would toggle nothing
\* in the cache T
TileSettled(T, tileKey) ==
    LET tile == GetScreenTile(display, tileKey)
    IN  tile # NULL => ~UpdateTiles(T, tile, display.s, display.rz).updated

\* the cache T is the cache with the open batch stored, no bit toggled
StoredOnly(T) ==
    LET cur == curLayerTileCollision[1]
    IN  /\ DOMAIN T = DOMAIN tiles \cup {cur.tileKey}
        /\ OtherSlots(T, cur.tileKey, cur.dataKey) = OtherSlots(tiles, cur.tileKey, cur.dataKey)
        /\ SlotData(T, cur.tileKey, cur.dataKey) = cur.data

\* C28 as stated: completeTile(true) recomputes the visibility of the
\* tile's screen projection whenever the commit changed what is cached for
\* the slot, also when an empty batch replaces a prior entry that held
\* candidates, and returns whether the slot changed.
C28_SyncWheneverSlotChanged ==
    [][CompleteStep(TRUE) =>
          LET cur == curLayerTileCollision[1]
              changed == \/ cur.data # <<>>
                         \/ ret.op = "initTile" /\ ret.prior
          IN  /\ ret'.val = changed
              /\ changed => TileSettled(tiles', cur.tileKey)]_vars

\* C28: completeTile returns whether a candidate was accepted into the
\* batch since initTile; completeTile(true) recomputes the visibility of
\* the tile's screen projection exactly when one was, and otherwise, as
\* when an empty batch replaces a prior entry that held candidates, only
\* stores the batch: no pass runs and false is returned.
C28_SyncWhenCandidateAccepted ==
    [][\A b \in BOOLEAN :
          CompleteStep(b) =>
              LET cur == curLayerTileCollision[1]
              IN  /\ ret'.val = (cur.data # <<>>)
                  /\ (b /\ cur.data # <<>>) => TileSettled(tiles', cur.tileKey)
                  /\ (~b \/ cur.data = <<>>) => StoredOnly(tiles')]_vars

\* completeTile(true) has committed a batch whose candidates intersect on
\* the screen and has hidden one of them
C28_Witness ==
    /\ ret.op = "completeTile" /\ ret.val = TRUE
    /\ GetScreenTile(display, Tile03.quadkey) # NULL
    /\ \E i, j \in 1..Len(ScreenList) :
          /\ ScreenList[i].ref[1] = Tile03.quadkey /\ ScreenList[j].ref[1] = Tile03.quadkey
          /\ Intersects(ScreenList[i], <<ScreenList[j]>>)
          /\ VisibleOnScreen(ScreenList[i])
          /\ ~VisibleOnScreen(ScreenList[j])


-----------------------------------------------------------------------------
(* The phase-2 pass: what it toggles and whom it hides                      *)

\* the screen-space candidates of the pass, in the order the sweep visits them
SortedScreenList == SortByPriority(ScreenList)

RECURSIVE Accepted(_, _)
\* the candidate at position i of the sorted list is accepted: no accepted
\* candidate before it, of a class it is checked against, intersects it
Accepted(L, i) ==
    ~\E j \in 1..(i - 1) :
        /\ L[j].slope = <<>> \/ L[i].slope = <<>>
        /\ Intersects(L[i], <<L[j]>>)
        /\ Accepted(L, j)

\* the buffer ranges of a screen-space candidate in the cache T
AttrsOf(T, e) == T[e.ref[1]][e.ref[2]].data[e.ref[3]].attrs

\* the vertex records of the range all carry the visibility bit v
RangeBits(attr, v) ==
    \A j \in 1..Len(attr.buffer.data) :
        (j - 1 >= attr.start /\ j - 1 < attr.stop /\ (j - 1 - attr.start) % attr.buffer.size = 0)
            => (attr.buffer.data[j] % 2 = 1) = v

\* the step is a phase-2 pass over the viewport
PassStep == \E id \in DOMAIN timeouts : RunPass(id)

\* C29: a pass toggles the vertex records of a buffer range, and marks the
\* buffer dirty, only when the computed visibility differs from the
\* range's bit, and leaves the range alone otherwise; it reports 'updated'
\* if and only if it toggled a range; afterwards the bit of every range it
\* processed is the computed visibility.
C29_ToggleOnlyOnChange ==
    [][PassStep =>
          LET L == SortedScreenList
              differs(i, a) == AttrVisible(AttrsOf(tiles, L[i])[a]) # Accepted(L, i)
          IN  /\ \A i \in 1..Len(L) : \A a \in 1..Len(AttrsOf(tiles, L[i])) :
                    /\ RangeBits(AttrsOf(tiles', L[i])[a], Accepted(L, i))
                    /\ IF differs(i, a)
                       THEN AttrsOf(tiles', L[i])[a].buffer.dirty
                       ELSE AttrsOf(tiles', L[i])[a] = AttrsOf(tiles, L[i])[a]
              /\ ret'.val <=> \E i \in 1..Len(L) : \E a \in 1..Len(AttrsOf(tiles, L[i])) :
                                  differs(i, a)]_vars

\* a pass has hidden one candidate and left a visible one untouched: the
\* buffer of the first is dirty, that of the second is not
C29_Witness ==
    /\ AfterPass /\ ret.val
    /\ \E i, j \in 1..Len(ScreenList) :
          /\ ~VisibleOnScreen(ScreenList[i])
          /\ \A a \in 1..Len(AttrsOf(tiles, ScreenList[i])) :
                AttrsOf(tiles, ScreenList[i])[a].buffer.dirty
          /\ VisibleOnScreen(ScreenList[j])
          /\ \A a \in 1..Len(AttrsOf(tiles, ScreenList[j])) :
                ~AttrsOf(tiles, ScreenList[j])[a].buffer.dirty

\* C30: after a pass, a slope-aligned candidate that intersects a visible
\* viewport-aligned candidate sorted before it is hidden, and a
\* viewport-aligned candidate that intersects a visible candidate of either
\* class sorted before it is hidden.
C30_ClassesCrossChecked ==
    AfterPass =>
        \A i, j \in 1..Len(SortedScreenList) :
            (/\ i < j
             /\ VisibleOnScreen(SortedScreenList[i])
             /\ Intersects(SortedScreenList[j], <<SortedScreenList[i]>>)
             /\ \/ SortedScreenList[j].slope # <<>> /\ SortedScreenList[i].slope = <<>>
                \/ SortedScreenList[j].slope = <<>>)
                => ~VisibleOnScreen(SortedScreenList[j])

\* a pass has hidden a viewport-aligned candidate behind a visible
\* slope-aligned one
C30_Witness ==
    /\ AfterPass
    /\ \E i, j \in 1..Len(SortedScreenList) :
          /\ i < j
          /\ SortedScreenList[i].slope # <<>> /\ VisibleOnScreen(SortedScreenList[i])
          /\ SortedScreenList[j].slope = <<>> /\ ~VisibleOnScreen(SortedScreenList[j])
          /\ Intersects(SortedScreenList[j], <<SortedScreenList[i]>>)


-----------------------------------------------------------------------------
(* initTile: the obstacle set                                               *)

RECURSIVE QuadKeyX(_)
\* the column of the tile a quadkey names
QuadKeyX(q) ==
    IF q = <<>> THEN 0
    ELSE 2 * QuadKeyX(SubSeq(q, 1, Len(q) - 1)) + (DigitVal(q[Len(q)]) % 2)

RECURSIVE QuadKeyY(_)
\* the row of the tile a quadkey names
QuadKeyY(q) ==
    IF q = <<>> THEN 0
    ELSE 2 * QuadKeyY(SubSeq(q, 1, Len(q) - 1)) + (DigitVal(q[Len(q)]) \div 2)

\* two keys of one zoom level name tiles one column and one row apart at
\* most, counted around the edge of the tile pyramid
AdjacentKeys(q1, q2) ==
    /\ Len(q1) = Len(q2)
    /\ q1 # q2
    /\ LET n == Pow2(Len(q1))
           dx == (QuadKeyX(q2) - QuadKeyX(q1)) % n
           dy == (QuadKeyY(q2) - QuadKeyY(q1)) % n
       IN  dx \in {0, 1, n - 1} /\ dy \in {0, 1, n - 1}

\* the box lists of the candidates in a list of collision data
BoxListsOf(data) == {data[i].boxes : i \in 1..Len(data)}

\* the box lists of the obstacle set of an open batch
ObstacleBoxLists(cur) == UNION {BoxListsOf(cur.existing[n].data) : n \in 1..Len(cur.existing)}

\* C31: the obstacle set initTile(tile, layer) gathers holds exactly the
\* candidates cached under the cache keys adjacent to the tile's cache key
\* at the same zoom and those of the other slots under the tile's own cache
\* key; it holds no slot of the same (layer, quadkey), what was committed
\* for it before is gone from the cache, and a neighbour without cache
\* entry adds nothing and raises no error.
C31_ObstaclesAreNeighboursAndOtherSlots ==
    [][\A job \in JobsObstacles :
          InitTile(job) =>
              LET tileKey == GetTileCacheKey(job.tile.quadkey, job.layer)
                  dataKey == GetDataKey(job.tile.quadkey, job.layer)
                  cur == curLayerTileCollision'[1]
                  expected == {sl \in CacheSlots(tiles) :
                                  \/ AdjacentKeys(tileKey, sl.tileKey)
                                  \/ sl.tileKey = tileKey /\ sl.dataKey # dataKey}
              IN  /\ ~ret'.threw
                  /\ ObstacleBoxLists(cur) = UNION {BoxListsOf(sl.data) : sl \in expected}
                  /\ \A n \in 1..Len(cur.existing) : cur.existing[n].key # dataKey
                  /\ SlotData(tiles', tileKey, dataKey) = <<>>]_vars

\* initTile for a tile with a committed entry of its own, next to a
\* registered neighbour, unregistered ones and a distant tile, and sharing its cache key
\* with another layer's tile: the obstacles are those of the neighbour and
\* of the other layer, not those of the distant tile
C31_Witness ==
    /\ ret.op = "initTile" /\ ret.prior
    /\ curLayerTileCollision # NULL
    /\ curLayerTileCollision[1].dataKey = GetDataKey(Tile03.quadkey, Layer512)
    /\ Len(curLayerTileCollision[1].existing) = 2
    /\ \A n \in 1..2 : curLayerTileCollision[1].existing[n].data # <<>>
    /\ SlotData(tiles, Tile12.quadkey, GetDataKey(Tile12.quadkey, Layer512)) # <<>>
    /\ SlotData(tiles, Tile33.quadkey, GetDataKey(Tile33.quadkey, Layer512)) # <<>>
    /\ Cardinality(DOMAIN tiles) = 3

-----------------------------------------------------------------------------
(* BasicDisplay: tiles that failed to load                                  *)

\* a step in which the request of the tile fails and the layer's callback
\* passes the failed tile on to Display.handleTile
FailedTileHandled(quadkey, layer) ==
    /\ DataArrivesStep(quadkey, layer)
    /\ IsVisible(dLayerTiles, quadkey, layer)
    /\ fetches'[FetchKey(quadkey, layer)] = "failed"

\* C32: Display.handleTile for a tile that carries a load error sets the
\* error flag of the tile's layer and of no other layer, raises no
\* exception, and leaves the readiness flags and the tasks of every bucket
\* as they were; a bucket it creates for the tile is not ready and has no
\* task.
C32_LoadErrorFlagsOwnLayerOnly ==
    [][\A quadkey \in GridQuadkeys, layer \in GridLayers :
          FailedTileHandled(quadkey, layer) =>
              /\ errors' = errors \cup {layer.id}
              /\ ~ret'.threw
              /\ layers' = layers
              /\ \A qk \in DOMAIN buckets :
                    /\ qk \in DOMAIN buckets'
                    /\ buckets'[qk].r = buckets[qk].r
                    /\ buckets'[qk].tasks = buckets[qk].tasks
              /\ \A qk \in DOMAIN buckets' \ DOMAIN buckets :
                    /\ qk = quadkey
                    /\ buckets'[qk].tasks = <<>>
                    /\ \A i \in 1..Len(buckets'[qk].r) : ~buckets'[qk].r[i]]_vars

\* a tile of one layer failed to load while another layer of the display,
\* free of errors, has a build pending
C32_Witness ==
    /\ ret.op = "dataArrives"
    /\ IsVisible(dLayerTiles, ret.quadkey, ret.layer)
    /\ fetches[FetchKey(ret.quadkey, ret.layer)] = "failed"
    /\ ret.layer.id \in errors
    /\ \E i \in 1..Len(layers) :
          /\ layers[i] # ret.layer
          /\ layers[i].id \notin errors
          /\ \E qk \in DOMAIN buckets : TileBusy(buckets[qk], layers[i])

-----------------------------------------------------------------------------
(* addExtrude: which edges get a wall                                       *)

\* the edges of the rings, each as the set of its end points
RingEdges(rings) ==
    UNION {{{rings[r][k], rings[r][k + 1]} : k \in 1..(Len(rings[r]) - 1)} :
              r \in 1..Len(rings)}

\* the edges the walls stand on
WallEdges(walls) == {{walls[i][1], walls[i][2]} : i \in 1..Len(walls)}

\* on which side of the line from a to b the point c lies
Orient(a, b, c) ==
    LET d == (b[1] - a[1]) * (c[2] - a[2]) - (b[2] - a[2]) * (c[1] - a[1])
    IN  IF d > 0 THEN 1 ELSE IF d < 0 THEN -1 ELSE 0

\* c, on the line through a and b, lies between them
Between(a, b, c) ==
    /\ Min(a[1], b[1]) <= c[1] /\ c[1] <= Max(a[1], b[1])
    /\ Min(a[2], b[2]) <= c[2] /\ c[2] <= Max(a[2], b[2])

\* the segments from a to b and from c to d have a point in common
SegmentsMeet(a, b, c, d) ==
    \/ Orient(a, b, c) # Orient(a, b, d) /\ Orient(c, d, a) # Orient(c, d, b)
    \/ Orient(a, b, c) = 0 /\ Between(a, b, c)
    \/ Orient(a, b, d) = 0 /\ Between(a, b, d)
    \/ Orient(c, d, a) = 0 /\ Between(c, d, a)
    \/ Orient(c, d, b) = 0 /\ Between(c, d, b)

\* the edge has a point within [0, tileSize] x [0, tileSize]
PartlyInTile(e, tileSize) ==
    LET s == tileSize * Px
    IN  \E p \in e, q \in e :
           \/ p[1] \in 0..s /\ p[2] \in 0..s
           \/ SegmentsMeet(p, q, <<0, 0>>, <<s, 0>>)
           \/ SegmentsMeet(p, q, <<s, 0>>, <<s, s>>)
           \/ SegmentsMeet(p, q, <<s, s>>, <<0, s>>)
           \/ SegmentsMeet(p, q, <<0, s>>, <<0, 0>>)

\* the end points of the edge differ after rounding to whole pixels
RoundedEndsDiffer(e) ==
    \E p \in e, q \in e :
        MathRound(p[1]) # MathRound(q[1]) \/ MathRound(p[2]) # MathRound(q[2])

\* C33: addExtrude emits a wall for a ring edge if and only if the height
\* exceeds 0.01, the edge's end points differ after rounding to integers and
\* the edge lies at least partly within [0, tileSize] x [0, tileSize].
C33_WallIffVisibleEdge ==
    ret.op = "addExtrude" =>
        WallEdges(ret.walls) =
            {e \in RingEdges(ret.rings) :
                /\ ret.extrude > MIN_VISIBLE_HEIGHT
                /\ RoundedEndsDiffer(e)
                /\ PartlyInTile(e, ret.tileSize)}

\* an extruded ring has an edge that runs through the tile and got no wall
C33_Witness ==
    /\ ret.op = "addExtrude"
    /\ ret.extrude > MIN_VISIBLE_HEIGHT
    /\ Len(ret.rings) = 1
    /\ \E e \in RingEdges(ret.rings) :
          /\ RoundedEndsDiffer(e)
          /\ PartlyInTile(e, ret.tileSize)
          /\ e \notin WallEdges(ret.walls)

-----------------------------------------------------------------------------
(* mvtPreProcessor: bundles, termination and the features handed over       *)

\* the features of the tile, layer by layer and in each layer by index
AllFeatures(mvt) == Flatten([l \in 1..Len(mvt) |-> [f \in 1..mvt[l] |-> <<l - 1, f - 1>>]])

Decoding == decode # NULL /\ ~decode.done

Decoded == decode # NULL /\ decode.done

\* C34: a step of the decode task converts at most 16 features; a task that
\* has been started ends; and when it has ended prep.ready has received
\* every feature of every layer exactly once, layer by layer and in each
\* layer in the order of the features, and not before.
C34_ChunkedDecodeComplete ==
    /\ [][TaskStep =>
             /\ Len(decode'.data.geojson) - Len(decode.data.geojson) <= BUNDLE_FEATURE_SIZE
             /\ SubSeq(decode'.data.geojson, 1, Len(decode.data.geojson)) = decode.data.geojson]_vars
    /\ [](Decoding => decode.ready = NULL)
    /\ [](Decoded => decode.ready = <<AllFeatures(decode.data.layers)>>)
    /\ (Decoding ~> Decoded)

\* a tile of two layers with more than two and more than one bundle of
\* features has been decoded
C34_Witness ==
    /\ Decoded
    /\ decode.data.layers = <<33, 17>>
    /\ Len(decode.ready[1]) = 50
    /\ ret.op = "exec"

-----------------------------------------------------------------------------
(* Display.update: animation frames and compositions                        *)

\* C35: at most one animation-frame callback of Display.update is pending
\* at any time; a call to update while a callback is pending requests no
\* other, a call while none is pending or running requests one, and the
\* frame that fires leaves none pending, so that the calls made before it
\* cause one composition; each call or-s its flag into the dirty flag.
C35_OneFramePerBatchOfUpdates ==
    /\ [](frame.pending <= 1 /\ (frame.pending = 1 => updating))
    /\ [][\A dirtyArg \in BOOLEAN :
             UpdateCall(dirtyArg) =>
                 /\ dirty' = (dirty \/ dirtyArg)
                 /\ frame.pending = 1 => frame'.pending = 1
                 /\ (frame.pending = 0 /\ ~frame.running) => frame'.pending = 1]_vars
    /\ [][FrameFires => frame'.pending = 0 /\ dirty' = dirty]_vars

\* update was called while the frame of an earlier call was still pending,
\* with a flag that is not set, after a call with a flag that is
C35_Witness ==
    /\ ret.op = "displayUpdate"
    /\ ~ret.requested
    /\ ~ret.dirtyArg
    /\ dirty
    /\ frame.pending = 1
    /\ ~frame.running

\* C36: every call to Display.update, also one made while viewport() is
\* running in the frame callback, is eventually followed by a viewport()
\* composition that starts after the call.
C36_UpdateFollowedByComposition == frame.owed ~> ~frame.owed

\* update was called while viewport() was running, viewport() has returned,
\* and no animation frame is requested
C36_Witness ==
    /\ frame.owed
    /\ frame.pending = 0
    /\ ~frame.running
    /\ ~updating

-----------------------------------------------------------------------------
(* CollisionHandler: batches                                                *)

\* the slots of the cache, without their positions
CommittedSlots(T) ==
    {[tileKey |-> sl.tileKey, dataKey |-> sl.dataKey, data |-> sl.data] : sl \in CacheSlots(T)}

\* C37: batches do not nest.  At most one batch is open; initTile while a
\* batch is open replaces it by an empty batch for the new tile and commits
\* nothing of the replaced one; completeTile closes the batch; and without
\* an open batch insert and completeTile throw and leave the cache as it is.
C37_BatchesDoNotNest ==
    /\ [](Len(curLayerTileCollision) <= 1)
    /\ [][\A job \in Jobs :
             (ret'.op = "initTile" /\ InitTile(job)) =>
                 /\ curLayerTileCollision' # NULL
                 /\ curLayerTileCollision'[1].data = <<>>
                 /\ curLayerTileCollision'[1].dataKey = GetDataKey(job.tile.quadkey, job.layer)
                 /\ CommittedSlots(tiles') \subseteq CommittedSlots(tiles)]_vars
    /\ [][\A b \in BOOLEAN :
             CompleteTile(b) =>
                 /\ curLayerTileCollision' = NULL
                 /\ ret'.threw = (curLayerTileCollision = NULL)
                 /\ ret'.threw => tiles' = tiles]_vars
    /\ [][\A job \in Jobs : \A c \in CandsOf(job) :
             (curLayerTileCollision = NULL /\ Insert(c, job))
                 => /\ ret'.threw
                    /\ tiles' = tiles
                    /\ curLayerTileCollision' = NULL]_vars

\* initTile replaced a batch that held accepted candidates, next to
\* committed data of another tile
C37_Witness ==
    /\ ret.op = "initTile"
    /\ ret.replaced
    /\ curLayerTileCollision # NULL
    /\ CacheSlots(tiles) # {}
    /\ \A sl \in CacheSlots(tiles) : sl.dataKey # curLayerTileCollision[1].dataKey

-----------------------------------------------------------------------------
(* CollisionHandler: removeTiles and the open batch                         *)

\* the id of the layer a slot key or a batch's data key belongs to
LayerIdOf(dataKey) == StrToNum(SplitFirst(dataKey))

\* the slots of the layer in the cache
LayerSlots(T, layer) == {sl \in CacheSlots(T) : LayerIdOf(sl.dataKey) = layer.id}

\* the step is an initTile for a tile of the layer
InitTileOfLayer(layer) ==
    /\ ret'.op = "initTile"
    /\ LayerIdOf(curLayerTileCollision'[1].dataKey) = layer.id

\* C38: after removeTiles(layer) the cache holds no slot of the layer, and
\* the next call, unless it is an initTile for a tile of the layer, leaves
\* it so; in particular completing a batch of the layer that was open when
\* removeTiles ran does not put a slot of the layer back.  (A slot of the
\* layer can only come back by completing the open batch, and completeTile
\* can be the next call whenever a batch is open: if a slot comes back in
\* any later state, it also does so in the next.)
C38_RemovedLayerStaysOut ==
    [][ret.op = "removeTiles" =>
          /\ LayerSlots(tiles, ret.layer) = {}
          /\ ~InitTileOfLayer(ret.layer) => LayerSlots(tiles', ret.layer) = {}]_vars

\* removeTiles ran for the layer of the open batch, which holds an accepted
\* candidate; the cache has entries left, none of them of the layer
C38_Witness ==
    /\ ret.op = "removeTiles"
    /\ curLayerTileCollision # NULL
    /\ LayerIdOf(curLayerTileCollision[1].dataKey) = ret.layer.id
    /\ curLayerTileCollision[1].data # <<>>
    /\ LayerSlots(tiles, ret.layer) = {}
    /\ CacheSlots(tiles) # {}

-----------------------------------------------------------------------------
(* BasicDisplay.updateTile on buckets without a pending build               *)

\* the bucket of a tile that is not on the layer's screen is cached, not
\* ready for the layer, and no build of the layer is pending on it
StaleOffScreen(B, LT, L, quadkey, layer) ==
    /\ IndexOf(L, layer) # -1
    /\ quadkey \in DOMAIN B
    /\ ~IsVisible(LT, quadkey, layer)
    /\ ~TileIsReady(B[quadkey], IndexOf(L, layer))
    /\ ~TileBusy(B[quadkey], layer)

\* C39: updateTile on a cached bucket without pending build of the layer
\* clears the layer's ready flag, and starts a build exactly if the tile is
\* in the layer's screen tiles; a cached bucket of a tile off the screen
\* that is not ready and has no build pending stays so in every step that
\* is not a grid update.
C39_UpdateTileRebuildsVisibleOnly ==
    /\ [][\A prevTiles \in CachedTileLists(fetches, Layer512),
             curTiles \in CachedTileLists(fetches, Layer512) :
             (ret'.op = "updateGeometry" /\ UpdateGeometry(prevTiles, curTiles, Layer512)) =>
                 \A quadkey \in QuadkeysOf(prevTiles, curTiles) :
                     (quadkey \in DOMAIN buckets /\ ~TileBusy(buckets[quadkey], Layer512)) =>
                         /\ ~TileIsReady(buckets'[quadkey], IndexOf(layers, Layer512))
                         /\ TaskCount(buckets', quadkey, Layer512)
                               = (IF IsVisible(dLayerTiles, quadkey, Layer512) THEN 1 ELSE 0)]_vars
    /\ [][ret'.op # "updateGrid" =>
             \A quadkey \in ModifierQuadkeys :
                 StaleOffScreen(buckets, dLayerTiles, layers, quadkey, Layer512)
                     => StaleOffScreen(buckets', dLayerTiles', layers', quadkey, Layer512)]_vars

\* a feature across a tile on the screen and a tile that has left the
\* screen was changed: the first is rebuilt, the second is left not ready
C39_Witness ==
    /\ ret.op = "updateGeometry"
    /\ \E q1, q2 \in QuadkeysOf(ret.prevTiles, ret.curTiles) :
          /\ StaleOffScreen(buckets, dLayerTiles, layers, q1, Layer512)
          /\ IsLoaded(fetches, q1, Layer512)
          /\ q2 \in DOMAIN buckets
          /\ IsVisible(dLayerTiles, q2, Layer512)
          /\ TileBusy(buckets[q2], Layer512)
          /\ ~TileIsReady(buckets[q2], IndexOf(layers, Layer512))

-----------------------------------------------------------------------------
(* BasicDisplay.removeLayer and the callbacks of the removed layer          *)

====
